---------------------------- MODULE Spec2Model ----------------------------
(***************************************************************************)
(* State-machine model of the IntelRegistry contract                       *)
(* (contracts/intel-registry/src/lib.rs): proof commitments, third-party   *)
(* attestations with replace-in-place per attestor, the derived            *)
(* verification status, per-source statistics and the refute operation.    *)
(*                                                                         *)
(* Strings are sequences of one-character strings, so String::len() is Len *)
(* and a hexadecimal test is a test of every element.  Option<String> is a *)
(* set with no element (None) or one element (Some(s)).  Every contract    *)
(* call is one atomic step: a panic (assert!/expect) aborts the call and   *)
(* nothing it wrote is kept.                                               *)
(*                                                                         *)
(* The contracts deployed beside it are modelled the same way, each as one *)
(* variable holding its struct: DataRegistry, HumintFeed,                 *)
(* ArgusContentGate and SourceListNFT.  No call crosses from one contract  *)
(* to another.                                                             *)
(***************************************************************************)
EXTENDS Integers, Sequences, FiniteSets, TLC

VARIABLES
    proofs,              \* UnorderedMap<String, ProofCommitment>
    attestations,        \* LookupMap<String, Vector<Attestation>>
    source_stats,        \* LookupMap<String, SourceStats>
    intel_proofs,        \* LookupMap<String, Vector<String>>
    total_proofs,        \* u64
    total_attestations,  \* u64
    owner,               \* AccountId
    block_height,        \* env::block_height()
    block_timestamp,     \* env::block_timestamp()
    ncalls,              \* number of committed mutating calls so far
    last,                \* the latest step: the call made, its arguments, its outcome
    data_registry,       \* the DataRegistry contract (contracts/data-registry): its struct
    humint_feed,         \* the HumintFeed contract (contracts/humint-feed): its struct
    elapsed_days,        \* whole days the host clock has advanced, read by the feed
    content_gate,        \* the ArgusContentGate contract (contracts/phala-content-gate)
    source_list_nft      \* the SourceListNFT contract (contracts/source-list-nft)

\* the contracts deployed beside the IntelRegistry, and the part of the host
\* clock only they read; no call crosses from one contract to another
other_contracts ==
    <<data_registry, humint_feed, elapsed_days, content_gate, source_list_nft>>

vars == <<proofs, attestations, source_stats, intel_proofs, total_proofs,
          total_attestations, owner, block_height, block_timestamp, ncalls, last,
          other_contracts>>

store == <<proofs, attestations, source_stats, intel_proofs, total_proofs,
           total_attestations, owner>>

---------------------------------------------------------------------------
(* Bounds of the model *)

\* committed mutating calls in one behaviour
MaxCalls == 5
\* blocks the host clock advances over in one behaviour
MaxBlocks == 1
\* committed mutating calls in one behaviour of the reputation scenario
ScenarioCalls == 8
\* days the host clock advances over in one behaviour
MaxDays == 2

---------------------------------------------------------------------------
(* Strings *)

Rep(c, n) == [i \in 1..n |-> c]

HexDigits == {"0", "1", "2", "3", "4", "5", "6", "7", "8", "9",
              "a", "b", "c", "d", "e", "f", "A", "B", "C", "D", "E", "F"}

IsHex(s) == \A i \in 1..Len(s) : s[i] \in HexDigits

None == {}
Some(s) == {s}

DecimalDigits == <<"0", "1", "2", "3", "4", "5", "6", "7", "8", "9">>

\* n.to_string()
RECURSIVE Decimal(_)
Decimal(n) ==
    IF n < 10 THEN <<DecimalDigits[n + 1]>>
    ELSE Decimal(n \div 10) \o <<DecimalDigits[(n % 10) + 1]>>

---------------------------------------------------------------------------
(* Inputs *)

OwnerAccount == "owner.near"
Accounts == {OwnerAccount, "alice.near", "bob.near"}

P1 == <<"p", "1">>
P2 == <<"p", "2">>
LongProofId == Rep("p", 65)
ProofIds == {P1, P2}

HashA == Rep("a", 64)
HashB == Rep("b", 64)
\* 64 characters, none of them a hexadecimal digit
NonHex64 == Rep("g", 64)
Short63 == Rep("a", 63)
Long65 == Rep("a", 65)
BadHashes == {NonHex64, Short63, Long65}

ShortMeta == <<"{", "}">>
LongMeta == Rep("m", 501)
ShortNote == <<"o", "k">>
LongNote == Rep("n", 201)
ShortReason == <<"f", "a", "k", "e">>
FullReason == Rep("r", 500)
LongReason == Rep("r", 501)

ProofTypes ==
    {"LocationProximity", "TimestampRange", "DocumentContains", "ImageMetadata",
     "MultiSourceCorroboration", "VerifiableCredential", "SatelliteImagery",
     "NetworkMembership", "FinancialThreshold", "GenericCommitment"}

RegisterRequest(id, c, t, s, i, p, m) ==
    [proof_id |-> id, commitment |-> c, proof_type |-> t, source_hash |-> s,
     intel_hash |-> i, public_inputs_hash |-> p, metadata |-> m]

\* well-formed requests: P2 comes with the source and intel claim of P1 or with others
RegisterInputs ==
    {RegisterRequest(P1, HashA, "LocationProximity", HashA, HashA, HashA, None),
     RegisterRequest(P2, HashA, "TimestampRange", HashA, HashA, HashA, None),
     RegisterRequest(P2, HashA, "TimestampRange", HashB, HashB, HashA, None)}

\* requests with one argument off
MalformedInputs ==
    {RegisterRequest(P1, HashA, "LocationProximity", HashA, HashA, HashA, m) : m \in {Some(ShortMeta), Some(LongMeta)}}
    \cup {RegisterRequest(LongProofId, HashA, "LocationProximity", HashA, HashA, HashA, None)}
    \cup {RegisterRequest(P1, b, "LocationProximity", HashA, HashA, HashA, None) : b \in BadHashes}
    \cup {RegisterRequest(P1, HashA, "LocationProximity", b, HashA, HashA, None) : b \in BadHashes}
    \cup {RegisterRequest(P1, HashA, "LocationProximity", HashA, b, HashA, None) : b \in BadHashes}
    \cup {RegisterRequest(P1, HashA, "LocationProximity", HashA, HashA, b, None) : b \in BadHashes}

AttestRequest(a, id, c, n) == [caller |-> a, proof_id |-> id, confidence |-> c, note |-> n]

\* every account attests P1 below and above the thresholds; one account attests P2
AttestInputs ==
    {AttestRequest(a, P1, c, None) : a \in Accounts, c \in {29, 70}}
    \cup {AttestRequest("alice.near", P2, c, None) : c \in {29, 70}}

\* confidence out of range, notes present and too long
OddAttestInputs ==
    {AttestRequest("bob.near", P1, c, None) : c \in {0, 101}}
    \cup {AttestRequest("alice.near", P1, 70, n) : n \in {Some(ShortNote), Some(LongNote)}}

RefuteRequest(a, id, r) == [caller |-> a, proof_id |-> id, reason |-> r]

RefuteInputs == {RefuteRequest(a, id, ShortReason) : a \in Accounts, id \in ProofIds}

\* reasons at the limit and beyond it
OddRefuteInputs ==
    {RefuteRequest(a, P1, LongReason) : a \in {OwnerAccount, "bob.near"}}
    \cup {RefuteRequest(OwnerAccount, P1, FullReason)}

---------------------------------------------------------------------------
(* Types *)

DefaultStats ==
    [total_proofs |-> 0, total_attestations |-> 0, confidence_sum |-> 0,
     verified_count |-> 0, refuted_count |-> 0,
     first_proof_height |-> 0, last_proof_height |-> 0]

\* LookupMap::get(&k).unwrap_or_default()
StatsOrDefault(stats, k) == IF k \in DOMAIN stats THEN stats[k] ELSE DefaultStats

\* mutant: an insertion drops the other entries
Insert_DropsOthers(map, k, v) == [x \in {k} |-> v]

\* mutant: the value is written under every key of the map
Insert_AtEveryKey(map, key, value) == [k \in DOMAIN map \cup {key} |-> value]

\* map.insert(&k, &v)
Insert(map, k, v) == [x \in DOMAIN map \cup {k} |-> IF x = k THEN v ELSE map[x]]

---------------------------------------------------------------------------
(* The record of the latest step *)

Committed(op, args, found) ==
    [op |-> op, result |-> "ok", args |-> args, found |-> found]

Rejected(op, args, result) ==
    [op |-> op, result |-> result, args |-> args, found |-> FALSE]

---------------------------------------------------------------------------
(* Host clock *)

InitHeight == 100
InitTimestamp == 1000000000

AdvanceBlock ==
    /\ block_height < InitHeight + MaxBlocks
    /\ block_height' = block_height + 1
    /\ block_timestamp' = block_timestamp + 1
    /\ last' = Committed("block", <<>>, FALSE)
    /\ UNCHANGED <<store, ncalls, other_contracts>>

---------------------------------------------------------------------------
(* register_proof *)

HashLenOk(h) == Len(h) = 64

\* mutant: the check for an existing proof_id is missing
RegisterResult_NoDuplicateCheck(ps, req) ==
    IF ~(Len(req.proof_id) <= 64) THEN "proof_id too long"
    ELSE IF ~HashLenOk(req.commitment) THEN "commitment must be 64 hex chars (SHA-256)"
    ELSE IF ~HashLenOk(req.source_hash) THEN "source_hash must be 64 hex chars"
    ELSE IF ~HashLenOk(req.intel_hash) THEN "intel_hash must be 64 hex chars"
    ELSE IF ~HashLenOk(req.public_inputs_hash) THEN "public_inputs_hash must be 64 hex chars"
    ELSE IF \E m \in req.metadata : ~(Len(m) <= 500) THEN "metadata too long (max 500 chars)"
    ELSE "ok"

RegisterResult(ps, req) ==
    IF ~(Len(req.proof_id) <= 64) THEN "proof_id too long"
    ELSE IF ~HashLenOk(req.commitment) THEN "commitment must be 64 hex chars (SHA-256)"
    ELSE IF ~HashLenOk(req.source_hash) THEN "source_hash must be 64 hex chars"
    ELSE IF ~HashLenOk(req.intel_hash) THEN "intel_hash must be 64 hex chars"
    ELSE IF ~HashLenOk(req.public_inputs_hash) THEN "public_inputs_hash must be 64 hex chars"
    ELSE IF req.proof_id \in DOMAIN ps THEN "proof_id already exists"
    ELSE IF \E m \in req.metadata : ~(Len(m) <= 500) THEN "metadata too long (max 500 chars)"
    ELSE "ok"

\* mutant: the record carries the clock of the deployment
NewProof_DeploymentClock(req, height, timestamp) ==
    [proof_id |-> req.proof_id,
     commitment |-> req.commitment,
     proof_type |-> req.proof_type,
     source_hash |-> req.source_hash,
     intel_hash |-> req.intel_hash,
     public_inputs_hash |-> req.public_inputs_hash,
     block_height |-> InitHeight,
     timestamp_ns |-> InitTimestamp,
     metadata |-> req.metadata,
     status |-> "Pending",
     attestation_count |-> 0,
     avg_confidence |-> 0]

NewProof(req, height, timestamp) ==
    [proof_id |-> req.proof_id,
     commitment |-> req.commitment,
     proof_type |-> req.proof_type,
     source_hash |-> req.source_hash,
     intel_hash |-> req.intel_hash,
     public_inputs_hash |-> req.public_inputs_hash,
     block_height |-> height,
     timestamp_ns |-> timestamp,
     metadata |-> req.metadata,
     status |-> "Pending",
     attestation_count |-> 0,
     avg_confidence |-> 0]

LinkIntel(index, intel_hash, proof_id) ==
    Insert(index, intel_hash,
           Append(IF intel_hash \in DOMAIN index THEN index[intel_hash] ELSE <<>>, proof_id))

\* mutant: every registration sets first_proof_height
RegisterStats_ResetsFirst(stats, height) ==
    [stats EXCEPT
        !.first_proof_height = height,
        !.total_proofs = @ + 1,
        !.last_proof_height = height]

\* mutant: the source's total_proofs is set to 1, not increased
RegisterStats_CountsOne(stats, height) ==
    [stats EXCEPT
        !.first_proof_height = IF stats.total_proofs = 0 THEN height ELSE @,
        !.total_proofs = 1,
        !.last_proof_height = height]

RegisterStats(stats, height) ==
    [stats EXCEPT
        !.first_proof_height = IF stats.total_proofs = 0 THEN height ELSE @,
        !.total_proofs = @ + 1,
        !.last_proof_height = height]

RegisterProof(req) ==
    LET result == RegisterResult(proofs, req)
    IN  /\ UNCHANGED <<block_height, block_timestamp, other_contracts>>
        /\ IF result = "ok"
           THEN /\ ncalls' = ncalls + 1
                /\ last' = Committed("register_proof", req, FALSE)
                /\ proofs' = Insert(proofs, req.proof_id,
                                    NewProof(req, block_height, block_timestamp))
                /\ total_proofs' = total_proofs + 1
                /\ attestations' = Insert(attestations, req.proof_id, <<>>)
                /\ intel_proofs' = LinkIntel(intel_proofs, req.intel_hash, req.proof_id)
                /\ source_stats' =
                       Insert(source_stats, req.source_hash,
                              RegisterStats(StatsOrDefault(source_stats, req.source_hash),
                                            block_height))
                /\ UNCHANGED <<total_attestations, owner>>
           ELSE /\ last' = Rejected("register_proof", req, result)
                /\ UNCHANGED <<store, ncalls>>

---------------------------------------------------------------------------
(* attest *)

\* mutant: the scan never finds the attestor
FindAttestor_Never(vec, attestor) == 0

\* index of the first entry of the attestor, 0 when there is none
FindAttestor(vec, attestor) ==
    IF \E i \in 1..Len(vec) : vec[i].attestor = attestor
    THEN CHOOSE i \in 1..Len(vec) :
             /\ vec[i].attestor = attestor
             /\ \A j \in 1..(i - 1) : vec[j].attestor # attestor
    ELSE 0

\* mutant: the attestation is pushed also when the attestor has an entry
ReplaceOrPush_AlwaysPush(vec, attestation) == Append(vec, attestation)

\* mutant: a replaced entry moves to the end of the collection
ReplaceOrPush_MovesToEnd(vec, attestation) ==
    Append(SelectSeq(vec, LAMBDA e : e.attestor # attestation.attestor), attestation)

ReplaceOrPush(vec, attestation) ==
    LET i == FindAttestor(vec, attestation.attestor)
    IN  IF i # 0 THEN [vec EXCEPT ![i] = attestation] ELSE Append(vec, attestation)

\* mutant: the loop stops one entry early
TotalConfidence_SkipLast(vec) ==
    LET RECURSIVE Sum(_)
        Sum(n) == IF n = 0 THEN 0 ELSE vec[n].confidence + Sum(n - 1)
    IN  Sum(Len(vec) - 1)

RECURSIVE TotalConfidence(_)
TotalConfidence(vec) ==
    IF vec = <<>> THEN 0 ELSE vec[1].confidence + TotalConfidence(Tail(vec))

\* mutant: the divisor is one too large
AvgConfidence_CountPlusOne(vec) == (TotalConfidence(vec) \div (Len(vec) + 1)) % 256

\* (total_confidence / count) as u8
AvgConfidence(vec) == (TotalConfidence(vec) \div Len(vec)) % 256

\* mutant: the threshold is exclusive
ResolveStatus_Exclusive(avg_confidence, attestation_count) ==
    IF avg_confidence > 70 THEN "Verified"
    ELSE IF attestation_count > 0 THEN "Contested"
    ELSE "Pending"

\* mutant: below the threshold the proof is Pending
ResolveStatus_NoContested(avg_confidence, attestation_count) ==
    IF avg_confidence >= 70 THEN "Verified" ELSE "Pending"

\* mutant: a low average refutes the proof
ResolveStatus_RefutesLow(avg_confidence, attestation_count) ==
    IF avg_confidence >= 70 THEN "Verified"
    ELSE IF avg_confidence < 30 /\ attestation_count > 0 THEN "Refuted"
    ELSE IF attestation_count > 0 THEN "Contested"
    ELSE "Pending"

\* mutant: an attested proof is Verified whatever its average
ResolveStatus_VerifiesAttested(avg_confidence, attestation_count) ==
    IF avg_confidence >= 70 \/ attestation_count > 0 THEN "Verified" ELSE "Pending"

\* mutant: a single attestation below the threshold leaves the proof Pending
ResolveStatus_NeedsTwo(avg_confidence, attestation_count) ==
    IF avg_confidence >= 70 THEN "Verified"
    ELSE IF attestation_count > 1 THEN "Contested"
    ELSE "Pending"

ResolveStatus(avg_confidence, attestation_count) ==
    IF avg_confidence >= 70 THEN "Verified"
    ELSE IF attestation_count > 0 THEN "Contested"
    ELSE "Pending"

\* mutant: the length of the note is not checked
AttestResult_NoNoteLimit(ps, atts, caller, proof_id, confidence, note) ==
    IF ~(confidence >= 1 /\ confidence <= 100) THEN "confidence must be 1-100"
    ELSE IF proof_id \notin DOMAIN ps THEN "proof not found"
    ELSE "ok"

\* mutant: a Refuted proof takes no further attestation
AttestResult_RejectsRefuted(ps, atts, caller, proof_id, confidence, note) ==
    IF ~(confidence >= 1 /\ confidence <= 100) THEN "confidence must be 1-100"
    ELSE IF \E n \in note : ~(Len(n) <= 200) THEN "note too long (max 200 chars)"
    ELSE IF proof_id \notin DOMAIN ps THEN "proof not found"
    ELSE IF ps[proof_id].status = "Refuted" THEN "proof is refuted"
    ELSE IF proof_id \notin DOMAIN atts THEN "attestations not found"
    ELSE "ok"

AttestResult(ps, atts, caller, proof_id, confidence, note) ==
    IF ~(confidence >= 1 /\ confidence <= 100) THEN "confidence must be 1-100"
    ELSE IF \E n \in note : ~(Len(n) <= 200) THEN "note too long (max 200 chars)"
    ELSE IF proof_id \notin DOMAIN ps THEN "proof not found"
    ELSE IF proof_id \notin DOMAIN atts THEN "attestations not found"
    ELSE IF Len(ReplaceOrPush(atts[proof_id], [attestor |-> caller])) = 0
         THEN "attempt to divide by zero"
    ELSE "ok"

\* mutant: the confidence of a first-time attestation is not added
AttestStats_CountOnly(stats, confidence) ==
    [stats EXCEPT !.total_attestations = @ + 1]

\* mutant: a first-time attestation adds its confidence but is not counted
AttestStats_SumOnly(stats, confidence) ==
    [stats EXCEPT !.confidence_sum = @ + confidence]

AttestStats(stats, confidence) ==
    [stats EXCEPT !.total_attestations = @ + 1, !.confidence_sum = @ + confidence]

\* mutant: a Verified outcome is not counted
VerifiedStats_NotCounted(stats) == stats

VerifiedStats(stats) == [stats EXCEPT !.verified_count = @ + 1]

Attest(caller, proof_id, confidence, note) ==
    LET result == AttestResult(proofs, attestations, caller, proof_id, confidence, note)
    IN  /\ UNCHANGED <<block_height, block_timestamp, owner, intel_proofs, total_proofs,
                       other_contracts>>
        /\ IF result = "ok"
           THEN LET proof == proofs[proof_id]
                    attestation == [attestor |-> caller, confidence |-> confidence,
                                    block_height |-> block_height, note |-> note]
                    found == FindAttestor(attestations[proof_id], caller) # 0
                    vec == ReplaceOrPush(attestations[proof_id], attestation)
                    count == IF found THEN proof.attestation_count
                             ELSE proof.attestation_count + 1
                    stats1 == IF found THEN source_stats
                              ELSE Insert(source_stats, proof.source_hash,
                                          AttestStats(StatsOrDefault(source_stats,
                                                                     proof.source_hash),
                                                      confidence))
                    avg == AvgConfidence(vec)
                    status == ResolveStatus(avg, count)
                    stats2 == IF status = "Verified"
                              THEN Insert(stats1, proof.source_hash,
                                          VerifiedStats(StatsOrDefault(stats1,
                                                                       proof.source_hash)))
                              ELSE stats1
                IN  /\ ncalls' = ncalls + 1
                    /\ last' = Committed("attest",
                                         AttestRequest(caller, proof_id, confidence, note),
                                         found)
                    /\ total_attestations' =
                           IF found THEN total_attestations ELSE total_attestations + 1
                    /\ source_stats' = stats2
                    /\ attestations' = Insert(attestations, proof_id, vec)
                    /\ proofs' = Insert(proofs, proof_id,
                                        [proof EXCEPT !.attestation_count = count,
                                                      !.avg_confidence = avg,
                                                      !.status = status])
           ELSE /\ last' = Rejected("attest", AttestRequest(caller, proof_id, confidence, note),
                                 result)
                /\ UNCHANGED <<store, ncalls>>

---------------------------------------------------------------------------
(* refute_proof *)

\* mutant: the owner is not exempt from the attestation condition
CanRefute_NoOwner(caller, own, proof) ==
    proof.attestation_count >= 3 /\ proof.avg_confidence < 30

\* mutant: two attestations are enough
CanRefute_TwoAttestations(caller, own, proof) ==
    caller = own \/ (proof.attestation_count >= 2 /\ proof.avg_confidence < 30)

CanRefute(caller, own, proof) ==
    caller = own \/ (proof.attestation_count >= 3 /\ proof.avg_confidence < 30)

RefuteResult(ps, own, caller, proof_id, reason) ==
    IF proof_id \notin DOMAIN ps THEN "proof not found"
    ELSE IF ~CanRefute(caller, own, ps[proof_id]) THEN "not authorized to refute"
    ELSE IF ~(Len(reason) <= 500) THEN "reason too long"
    ELSE "ok"

\* mutant: a refutation also takes the proof out of the verified ones
RefutedStats_DropsVerified(stats) ==
    [stats EXCEPT !.refuted_count = @ + 1, !.verified_count = @ - 1]

RefutedStats(stats) == [stats EXCEPT !.refuted_count = @ + 1]

RefuteProof(caller, proof_id, reason) ==
    LET result == RefuteResult(proofs, owner, caller, proof_id, reason)
    IN  /\ UNCHANGED <<block_height, block_timestamp, owner, attestations, intel_proofs,
                       total_proofs, total_attestations, other_contracts>>
        /\ IF result = "ok"
           THEN LET proof == [proofs[proof_id] EXCEPT !.status = "Refuted"]
                IN  /\ ncalls' = ncalls + 1
                    /\ last' = Committed("refute_proof",
                                         RefuteRequest(caller, proof_id, reason), FALSE)
                    /\ proofs' = Insert(proofs, proof_id, proof)
                    /\ source_stats' =
                           Insert(source_stats, proof.source_hash,
                                  RefutedStats(StatsOrDefault(source_stats,
                                                              proof.source_hash)))
           ELSE /\ last' = Rejected("refute_proof", RefuteRequest(caller, proof_id, reason),
                                 result)
                /\ UNCHANGED <<store, ncalls>>

---------------------------------------------------------------------------
(* f64 arithmetic of get_source_reputation.

   A finite f64 is modelled as [neg, mant, exp], standing for
   (-1)^neg * NatOf(mant) * 2^exp, where mant is a little-endian sequence
   of digits of LimbBits bits each, holding at most MantissaBits
   significant bits.  Every operation computes the exact result and rounds
   it to nearest, ties to even, as IEEE-754 binary64 does.  The values of
   this contract stay far from the subnormal and overflow ranges, so
   exponents are unbounded. *)

MantissaBits == 53

LimbBits == 12

Radix == 2^LimbBits

RECURSIVE BitLen(_)
BitLen(n) == IF n = 0 THEN 0 ELSE 1 + BitLen(n \div 2)

RECURSIVE Limbs(_)
Limbs(n) == IF n = 0 THEN <<>> ELSE <<n % Radix>> \o Limbs(n \div Radix)

RECURSIVE NatOf(_)
NatOf(a) == IF a = <<>> THEN 0 ELSE Head(a) + Radix * NatOf(Tail(a))

Zeros(n) == [i \in 1..n |-> 0]

Limb(a, i) == IF i \in 1..Len(a) THEN a[i] ELSE 0

\* drop the high-order zero digits
RECURSIVE Trim(_)
Trim(a) ==
    IF a = <<>> \/ a[Len(a)] # 0
    THEN a
    ELSE Trim(SubSeq(a, 1, Len(a) - 1))

BigBitLen(a) ==
    LET t == Trim(a)
    IN  IF t = <<>> THEN 0 ELSE LimbBits * (Len(t) - 1) + BitLen(t[Len(t)])

RECURSIVE BigAdd(_, _, _)
BigAdd(a, b, carry) ==
    IF a = <<>> /\ b = <<>>
    THEN Limbs(carry)
    ELSE LET t == Limb(a, 1) + Limb(b, 1) + carry
         IN  <<t % Radix>> \o BigAdd(IF a = <<>> THEN a ELSE Tail(a),
                                     IF b = <<>> THEN b ELSE Tail(b), t \div Radix)

\* a - b - borrow, for a >= b + borrow
RECURSIVE BigSub(_, _, _)
BigSub(a, b, borrow) ==
    IF a = <<>>
    THEN <<>>
    ELSE LET t == Head(a) - Limb(b, 1) - borrow
         IN  <<(t + Radix) % Radix>>
             \o BigSub(Tail(a), IF b = <<>> THEN b ELSE Tail(b), IF t < 0 THEN 1 ELSE 0)

\* a * c + carry, for a small whole number c
RECURSIVE BigMul(_, _, _)
BigMul(a, c, carry) ==
    IF a = <<>>
    THEN Limbs(carry)
    ELSE LET t == Head(a) * c + carry
         IN  <<t % Radix>> \o BigMul(Tail(a), c, t \div Radix)

RECURSIVE BigLess(_, _)
BigLess(a, b) ==
    LET x == Trim(a)
        y == Trim(b)
    IN  IF Len(x) # Len(y) THEN Len(x) < Len(y)
        ELSE IF x = <<>> THEN FALSE
        ELSE IF x[Len(x)] # y[Len(y)] THEN x[Len(x)] < y[Len(y)]
        ELSE BigLess(SubSeq(x, 1, Len(x) - 1), SubSeq(y, 1, Len(y) - 1))

\* a * 2^k
ShiftLeft(a, k) == Zeros(k \div LimbBits) \o BigMul(a, 2^(k % LimbBits), 0)

\* floor(a / 2^k)
ShiftRight(a, k) ==
    LET q == k \div LimbBits
        s == k % LimbBits
    IN  [i \in 1..(Len(a) - q) |->
            (Limb(a, i + q) \div 2^s) + (Limb(a, i + q + 1) % 2^s) * 2^(LimbBits - s)]

\* bit j of a, bit 0 being the least significant
Bit(a, j) == (Limb(a, j \div LimbBits + 1) \div 2^(j % LimbBits)) % 2

\* some bit of a below bit j is set
LowBits(a, j) ==
    \/ \E i \in 1..(j \div LimbBits) : Limb(a, i) # 0
    \/ Limb(a, j \div LimbBits + 1) % 2^(j % LimbBits) # 0

\* round to nearest, ties to even, to MantissaBits significant bits
RoundF64(neg, mant, exp) ==
    LET k == BigBitLen(mant) - MantissaBits
    IN  IF k <= 0
        THEN [neg |-> neg, mant |-> Trim(mant), exp |-> exp]
        ELSE LET kept == ShiftRight(mant, k)
                 up == Bit(mant, k - 1) = 1 /\ (LowBits(mant, k - 1) \/ Bit(kept, 0) = 1)
             IN  [neg |-> neg,
                  mant |-> Trim(IF up THEN BigAdd(kept, <<>>, 1) ELSE kept),
                  exp |-> exp + k]

\* n as f64, exact for the counters of this contract
F64FromNat(n) == [neg |-> FALSE, mant |-> Limbs(n), exp |-> 0]

\* k digits of r / b after the point, least significant first, preceded
\* by one digit that tells whether a remainder is left
RECURSIVE LongDivision(_, _, _)
LongDivision(r, b, k) ==
    IF k = 0
    THEN <<IF r = 0 THEN 0 ELSE 1>>
    ELSE LongDivision((r * Radix) % b, b, k - 1) \o <<(r * Radix) \div b>>

\* a as f64 / b as f64, for b > 0
F64Div(a, b) ==
    LET k == (MantissaBits + 2 + BitLen(b)) \div LimbBits + 1
    IN  RoundF64(FALSE, LongDivision(a % b, b, k) \o Limbs(a \div b),
                 0 - LimbBits * (k + 1))

\* x * c for a constant c that is a small whole number
F64Mul(x, c) == RoundF64(x.neg, BigMul(x.mant, c, 0), x.exp)

F64Add(x, y) ==
    LET e == IF x.exp < y.exp THEN x.exp ELSE y.exp
        a == ShiftLeft(x.mant, x.exp - e)
        b == ShiftLeft(y.mant, y.exp - e)
    IN  IF x.neg = y.neg THEN RoundF64(x.neg, BigAdd(a, b, 0), e)
        ELSE IF BigLess(a, b) THEN RoundF64(y.neg, BigSub(b, a, 0), e)
        ELSE RoundF64(x.neg, BigSub(a, b, 0), e)

F64Sub(x, y) == F64Add(x, [y EXCEPT !.neg = ~y.neg])

F64Less(x, y) ==
    LET e == IF x.exp < y.exp THEN x.exp ELSE y.exp
        a == ShiftLeft(x.mant, x.exp - e)
        b == ShiftLeft(y.mant, y.exp - e)
    IN  IF x.neg # y.neg THEN x.neg /\ (Trim(a) # <<>> \/ Trim(b) # <<>>)
        ELSE IF x.neg THEN BigLess(b, a)
        ELSE BigLess(a, b)

F64Min(x, y) == IF F64Less(y, x) THEN y ELSE x

F64Max(x, y) == IF F64Less(x, y) THEN y ELSE x

\* the whole part of |x|
F64Trunc(x) ==
    IF x.exp >= 0
    THEN NatOf(ShiftLeft(x.mant, x.exp))
    ELSE NatOf(Trim(ShiftRight(x.mant, 0 - x.exp)))

U8Max == 255

\* x as u8: truncates toward zero and saturates
F64ToU8(x) ==
    IF x.neg THEN 0
    ELSE IF F64Trunc(x) > U8Max THEN U8Max
    ELSE F64Trunc(x)

---------------------------------------------------------------------------
(* Views *)

ClampScore_NoUpperBound(score) == F64ToU8(F64Max(score, F64FromNat(0)))

\* score.max(0.0).min(100.0) as u8
ClampScore(score) == F64ToU8(F64Min(F64Max(score, F64FromNat(0)), F64FromNat(100)))

Score_NoActivityBonus(stats) ==
    F64Mul(F64Div(stats.verified_count, stats.total_proofs), 50)

Score(stats) ==
    LET verified_ratio ==
            F64Mul(F64Div(stats.verified_count, stats.total_proofs), 50)
        avg_conf ==
            IF stats.total_attestations > 0
            THEN F64Min(F64Div(stats.confidence_sum, stats.total_attestations),
                        F64FromNat(30))
            ELSE F64FromNat(0)
        refuted_penalty ==
            F64Mul(F64Div(stats.refuted_count, stats.total_proofs), 30)
        activity_bonus == F64Min(F64FromNat(stats.total_proofs), F64FromNat(10))
    IN  F64Add(F64Sub(F64Add(verified_ratio, avg_conf), refuted_penalty),
               activity_bonus)

SourceReputation(stats_map, source_hash) ==
    IF source_hash \notin DOMAIN stats_map THEN 0
    ELSE IF stats_map[source_hash].total_proofs = 0 THEN 0
    ELSE ClampScore(Score(stats_map[source_hash]))

\* a view call answers with a value and changes nothing
Answered(op, args, value) ==
    [op |-> op, result |-> "ok", args |-> args, found |-> FALSE, value |-> value]

GetSourceReputation(source_hash) ==
    /\ last' = Answered("get_source_reputation", [source_hash |-> source_hash],
                        SourceReputation(source_stats, source_hash))
    /\ UNCHANGED <<store, block_height, block_timestamp, ncalls, other_contracts>>

\* self.source_stats.get(&source_hash)
SourceStatsOf(stats_map, source_hash) ==
    IF source_hash \in DOMAIN stats_map THEN Some(stats_map[source_hash]) ELSE None

GetSourceStats(source_hash) ==
    /\ last' = Answered("get_source_stats", [source_hash |-> source_hash],
                        SourceStatsOf(source_stats, source_hash))
    /\ UNCHANGED <<store, block_height, block_timestamp, ncalls, other_contracts>>

\* mutant: only the first linked proof is returned
IntelProofs_FirstOnly(index, ps, intel_hash) ==
    IF intel_hash \notin DOMAIN index THEN <<>>
    ELSE <<ps[index[intel_hash][1]]>>

IntelProofs(index, ps, intel_hash) ==
    IF intel_hash \notin DOMAIN index THEN <<>>
    ELSE LET proof_ids == SelectSeq(index[intel_hash], LAMBDA id : id \in DOMAIN ps)
         IN  [i \in 1..Len(proof_ids) |-> ps[proof_ids[i]]]

GetIntelProofs(intel_hash) ==
    /\ last' = Answered("get_intel_proofs", [intel_hash |-> intel_hash],
                        IntelProofs(intel_proofs, proofs, intel_hash))
    /\ UNCHANGED <<store, block_height, block_timestamp, ncalls, other_contracts>>

\* mutant: any stored proof matches
CommitmentMatches_AnyRegistered(ps, proof_id, computed_commitment) ==
    proof_id \in DOMAIN ps

CommitmentMatches(ps, proof_id, computed_commitment) ==
    IF proof_id \in DOMAIN ps THEN ps[proof_id].commitment = computed_commitment ELSE FALSE

VerifyCommitment(proof_id, computed_commitment) ==
    /\ last' = Answered("verify_commitment",
                        [proof_id |-> proof_id, computed_commitment |-> computed_commitment],
                        CommitmentMatches(proofs, proof_id, computed_commitment))
    /\ UNCHANGED <<store, block_height, block_timestamp, ncalls, other_contracts>>

GetStats ==
    /\ last' = Answered("get_stats", <<>>, <<total_proofs, total_attestations>>)
    /\ UNCHANGED <<store, block_height, block_timestamp, ncalls, other_contracts>>

\* the sequences that hold every stored proof once: self.proofs.values()
\* is one of them
RECURSIVE Enumerations(_)
Enumerations(ps) ==
    IF DOMAIN ps = {} THEN {<<>>}
    ELSE UNION {{<<ps[id]>> \o rest :
                   rest \in Enumerations([x \in DOMAIN ps \ {id} |-> ps[x]])} :
                id \in DOMAIN ps}

\* the sorted sequence with one more proof, placed behind the proofs that
\* are not lower: sort_by is stable
RECURSIVE Place(_, _)
Place(sorted, proof) ==
    IF sorted = <<>> THEN <<proof>>
    ELSE IF sorted[1].block_height >= proof.block_height
         THEN <<sorted[1]>> \o Place(Tail(sorted), proof)
    ELSE <<proof>> \o sorted

\* proofs.sort_by(|a, b| b.block_height.0.cmp(&a.block_height.0))
RECURSIVE SortByHeightDescending(_)
SortByHeightDescending(vals) ==
    IF vals = <<>> THEN <<>>
    ELSE Place(SortByHeightDescending(SubSeq(vals, 1, Len(vals) - 1)), vals[Len(vals)])

\* mutant: the proofs are truncated before they are sorted
RecentProofs_TruncatesFirst(vals, limit) ==
    SortByHeightDescending(SubSeq(vals, 1, IF limit < Len(vals) THEN limit ELSE Len(vals)))

\* sort, then proofs.truncate(limit as usize)
RecentProofs(vals, limit) ==
    LET sorted == SortByHeightDescending(vals)
    IN  SubSeq(sorted, 1, IF limit < Len(sorted) THEN limit ELSE Len(sorted))

\* the model keeps the stored proofs without the order of the map's
\* values(); the view may start from any enumeration of them
GetRecentProofs(limit) ==
    /\ \E vals \in Enumerations(proofs) :
           last' = Answered("get_recent_proofs", [limit |-> limit], RecentProofs(vals, limit))
    /\ UNCHANGED <<store, block_height, block_timestamp, ncalls, other_contracts>>

---------------------------------------------------------------------------
(* DataRegistry (contracts/data-registry/src/lib.rs): one entry per        *)
(* account, written and removed by the account itself.  data_registry is   *)
(* the contract's struct: entries (LookupMap<AccountId, DataEntry>) and    *)
(* total_users (u64).  No call of this contract panics.                    *)

\* DataRegistry::new()
DataRegistryNew == [entries |-> <<>>, total_users |-> 0]

\* the arguments of set_data
DataPayload(cid, data_hash, public_key) ==
    [cid |-> cid, data_hash |-> data_hash, public_key |-> public_key]

\* the payloads of the contract's unit tests
DataPayloads ==
    {DataPayload("QmFirst", "hash1", "pk1"), DataPayload("QmSecond", "hash2", "pk2")}

\* map.remove(&k)
Remove(map, k) == [x \in DOMAIN map \ {k} |-> map[x]]

\* the version set_data always starts from
DataEntry_RestartsVersion(entries, account_id, payload, timestamp) ==
    [cid |-> payload.cid, version |-> 1, updated_at |-> timestamp,
     data_hash |-> payload.data_hash, public_key |-> payload.public_key]

\* the entry set_data writes: the next version of an existing entry, or version 1
DataEntry(entries, account_id, payload, timestamp) ==
    [cid |-> payload.cid,
     version |-> IF account_id \in DOMAIN entries
                 THEN entries[account_id].version + 1
                 ELSE 1,
     updated_at |-> timestamp,
     data_hash |-> payload.data_hash,
     public_key |-> payload.public_key]

\* every set_data counted as a new user
UsersAfterSet_CountsEveryCall(entries, total_users, account_id) == total_users + 1

\* self.total_users += 1 on the branch without an existing entry
UsersAfterSet(entries, total_users, account_id) ==
    IF account_id \in DOMAIN entries THEN total_users ELSE total_users + 1

\* self.total_users.saturating_sub(1)
SaturatingSub1(n) == IF n = 0 THEN 0 ELSE n - 1

\* a step of the data registry leaves the IntelRegistry and the host clock alone
DataRegistryOnly ==
    UNCHANGED <<store, block_height, block_timestamp, elapsed_days, humint_feed,
                content_gate, source_list_nft>>

\* a call that returns a value
Returned(op, args, found, value) ==
    [op |-> op, result |-> "ok", args |-> args, found |-> found, value |-> value]

SetData(caller, cid, data_hash, public_key) ==
    LET entries == data_registry.entries
        payload == DataPayload(cid, data_hash, public_key)
        entry == DataEntry(entries, caller, payload, block_timestamp)
    IN  /\ data_registry' =
               [entries |-> Insert(entries, caller, entry),
                total_users |-> UsersAfterSet(entries, data_registry.total_users, caller)]
        /\ ncalls' = ncalls + 1
        /\ last' = Committed("set_data", [caller |-> caller, payload |-> payload],
                             caller \in DOMAIN entries)
        /\ DataRegistryOnly

DeleteData(caller) ==
    LET entries == data_registry.entries
        removed == caller \in DOMAIN entries
    IN  /\ data_registry' =
               IF removed
               THEN [entries |-> Remove(entries, caller),
                     total_users |-> SaturatingSub1(data_registry.total_users)]
               ELSE data_registry
        /\ ncalls' = ncalls + 1
        /\ last' = Returned("delete_data", [caller |-> caller], removed, removed)
        /\ DataRegistryOnly

\* self.entries.contains_key(&account_id)
HasDataOf(entries, account_id) == account_id \in DOMAIN entries

\* self.entries.get(&account_id).map(|e| e.version).unwrap_or(0)
VersionOf(entries, account_id) ==
    IF account_id \in DOMAIN entries THEN entries[account_id].version ELSE 0

DataView(op, args, value) ==
    /\ last' = Answered(op, args, value)
    /\ UNCHANGED <<data_registry, ncalls>>
    /\ DataRegistryOnly

GetData(account_id) ==
    DataView("get_data", [account_id |-> account_id],
             IF account_id \in DOMAIN data_registry.entries
             THEN Some(data_registry.entries[account_id])
             ELSE None)

HasData(account_id) ==
    DataView("has_data", [account_id |-> account_id],
             HasDataOf(data_registry.entries, account_id))

GetTotalUsers == DataView("get_total_users", <<>>, data_registry.total_users)

GetVersion(account_id) ==
    DataView("get_version", [account_id |-> account_id],
             VersionOf(data_registry.entries, account_id))

---------------------------------------------------------------------------
(* HumintFeed (contracts/humint-feed/src/lib.rs): sources, anchored posts, *)
(* per-post exclusions and the access-pass NFT ledger.  humint_feed is the *)
(* contract's struct; token_metadata_by_id and metadata (NEP-177 display   *)
(* data, written once and read only by nft_token and nft_metadata) are     *)
(* left out.  An UnorderedSet is a set.                                    *)
(*                                                                         *)
(* The feed adds whole days to env::block_timestamp().  A timestamp of the *)
(* feed is a record [days, ns] that stands for days * 86,400,000,000,000   *)
(* + ns nanoseconds, with ns below one day, so that a pass can be followed *)
(* beyond its expiry; [days |-> 0, ns |-> 0] is the u64 0.                 *)

Timestamp(days, ns) == [days |-> days, ns |-> ns]

TimeZero == Timestamp(0, 0)

\* a < b on u64 timestamps
TimeLess(a, b) == a.days < b.days \/ (a.days = b.days /\ a.ns < b.ns)

\* env::block_timestamp() as the feed reads it
Now == Timestamp(elapsed_days, block_timestamp)

\* duration_days as u64 * 24 * 60 * 60 * 1_000_000_000
DurationNs(duration_days) == Timestamp(duration_days, 0)

\* now + duration_ns
TimeAdd(a, b) == Timestamp(a.days + b.days, a.ns + b.ns)

\* a day passes on the host clock
AdvanceDay ==
    /\ elapsed_days < MaxDays
    /\ elapsed_days' = elapsed_days + 1
    /\ block_height' = block_height + 1
    /\ last' = Committed("day", <<>>, FALSE)
    /\ UNCHANGED <<store, block_timestamp, ncalls, data_registry, humint_feed,
                   content_gate, source_list_nft>>

\* platform_fee_bps of the deployment
FeeBps == 500

\* HumintFeed::new(owner_id, platform_fee_bps)
HumintFeedNew(owner_id, platform_fee_bps) ==
    [owner_id |-> owner_id,
     platform_fee_bps |-> platform_fee_bps,
     sources |-> <<>>,
     posts |-> <<>>,
     source_posts |-> <<>>,
     post_exclusions |-> <<>>,
     tokens_per_owner |-> <<>>,
     tokens_by_id |-> <<>>,
     access_pass_data |-> <<>>,
     next_token_id |-> 1]

\* a step of the feed leaves the other contracts and the host clock alone
HumintFeedOnly ==
    UNCHANGED <<store, block_height, block_timestamp, elapsed_days, data_registry,
                content_gate, source_list_nft>>

\* a committed call of the feed that writes the struct f
FeedCommit(op, args, value, f) ==
    /\ humint_feed' = f
    /\ ncalls' = ncalls + 1
    /\ last' = Returned(op, args, FALSE, value)
    /\ HumintFeedOnly

\* a call of the feed that panics
FeedReject(op, args, result) ==
    /\ last' = Rejected(op, args, result)
    /\ UNCHANGED <<humint_feed, ncalls>>
    /\ HumintFeedOnly

\* a view call of the feed
FeedView(op, args, value) ==
    /\ last' = Answered(op, args, value)
    /\ UNCHANGED <<humint_feed, ncalls>>
    /\ HumintFeedOnly

Package(id, name, price_usdc_cents, duration_days, description) ==
    [id |-> id, name |-> name, price_usdc_cents |-> price_usdc_cents,
     duration_days |-> duration_days, description |-> description]

\* the validation loop over the packages
PackagesResult(packages, check_names) ==
    IF \E i \in 1..Len(packages) :
           /\ packages[i].duration_days = 0
           /\ \A j \in 1..(i - 1) : ~check_names \/ Len(packages[j].name) <= 50
    THEN "Package duration must be > 0"
    ELSE IF check_names /\ \E i \in 1..Len(packages) : Len(packages[i].name) > 50
    THEN "Package name too long"
    ELSE "ok"

RegisterSourceResult(f, codename_hash, packages) ==
    IF codename_hash \in DOMAIN f.sources THEN "Source already registered"
    ELSE IF ~(Len(codename_hash) = 64 /\ IsHex(codename_hash))
    THEN "Invalid codename hash format"
    ELSE PackagesResult(packages, TRUE)

RegisterSource(codename_hash, public_key, packages) ==
    LET f == humint_feed
        args == [codename_hash |-> codename_hash, public_key |-> public_key,
                 packages |-> packages]
        result == RegisterSourceResult(f, codename_hash, packages)
        source == [codename_hash |-> codename_hash,
                   public_key |-> public_key,
                   packages |-> packages,
                   post_count |-> 0,
                   subscriber_count |-> 0,
                   created_at |-> Now,
                   is_active |-> TRUE]
    IN  IF result = "ok"
        THEN FeedCommit("register_source", args, <<>>,
                        [f EXCEPT !.sources = Insert(@, codename_hash, source),
                                  !.source_posts = Insert(@, codename_hash, {})])
        ELSE FeedReject("register_source", args, result)

UpdatePackagesResult(f, codename_hash, packages) ==
    IF codename_hash \notin DOMAIN f.sources THEN "Source not found"
    ELSE PackagesResult(packages, FALSE)

UpdatePackages(codename_hash, packages) ==
    LET f == humint_feed
        args == [codename_hash |-> codename_hash, packages |-> packages]
        result == UpdatePackagesResult(f, codename_hash, packages)
    IN  IF result = "ok"
        THEN FeedCommit("update_packages", args, <<>>,
                        [f EXCEPT !.sources[codename_hash].packages = packages])
        ELSE FeedReject("update_packages", args, result)

AnchorPostResult(f, post_id, codename_hash, content_hash) ==
    IF codename_hash \notin DOMAIN f.sources THEN "Source not found"
    ELSE IF ~f.sources[codename_hash].is_active THEN "Source is not active"
    ELSE IF post_id \in DOMAIN f.posts THEN "Post already anchored"
    ELSE IF ~(Len(content_hash) = 64 /\ IsHex(content_hash)) THEN "Invalid content hash"
    ELSE "ok"

\* register_source, update_packages and anchor_post do not read the caller
AnchorPost(post_id, codename_hash, content_hash, content_cid, is_premium, epoch, zk_proofs) ==
    LET f == humint_feed
        args == [post_id |-> post_id, codename_hash |-> codename_hash,
                 content_hash |-> content_hash, content_cid |-> content_cid,
                 is_premium |-> is_premium, epoch |-> epoch, zk_proofs |-> zk_proofs]
        result == AnchorPostResult(f, post_id, codename_hash, content_hash)
        anchor == [post_id |-> post_id,
                   content_hash |-> content_hash,
                   content_cid |-> content_cid,
                   is_premium |-> is_premium,
                   epoch |-> epoch,
                   created_at |-> Now,
                   source_hash |-> codename_hash,
                   zk_proofs |-> zk_proofs]
    IN  IF result = "ok"
        THEN FeedCommit("anchor_post", args, <<>>,
                        [f EXCEPT !.posts = Insert(@, post_id, anchor),
                                  !.source_posts =
                                      IF codename_hash \in DOMAIN @
                                      THEN [@ EXCEPT ![codename_hash] = @ \cup {post_id}]
                                      ELSE @,
                                  !.sources[codename_hash].post_count = @ + 1])
        ELSE FeedReject("anchor_post", args, result)

\* format!("ap-{}", self.next_token_id)
TokenId(n) == <<"a", "p", "-">> \o Decimal(n)

\* source.packages.iter().find(|p| p.id == package_id)
FindPackage(packages, package_id) ==
    LET hits == {i \in 1..Len(packages) : packages[i].id = package_id}
    IN  IF hits = {} THEN None
        ELSE Some(packages[CHOOSE i \in hits : \A j \in hits : i <= j])

MintResult(f, caller, source_hash, package_id) ==
    IF caller # f.owner_id THEN "Only owner can mint access passes"
    ELSE IF source_hash \notin DOMAIN f.sources THEN "Source not found"
    ELSE IF FindPackage(f.sources[source_hash].packages, package_id) = None
    THEN "Package not found"
    ELSE "ok"

\* if package.duration_days == 0 { 0 } else { now + duration_ns }
ExpiresAt(duration_days, now) ==
    IF duration_days = 0 THEN TimeZero ELSE TimeAdd(now, DurationNs(duration_days))

\* the owner's set with the token added; a new set for an owner without one
AddToOwner(tokens_per_owner, account_id, token_id) ==
    IF account_id \in DOMAIN tokens_per_owner
    THEN [tokens_per_owner EXCEPT ![account_id] = @ \cup {token_id}]
    ELSE Insert(tokens_per_owner, account_id, {token_id})

MintAccessPass(caller, receiver_id, source_hash, package_id, amount_paid_usdc_cents) ==
    LET f == humint_feed
        args == [caller |-> caller, receiver_id |-> receiver_id,
                 source_hash |-> source_hash, package_id |-> package_id,
                 amount_paid_usdc_cents |-> amount_paid_usdc_cents]
        result == MintResult(f, caller, source_hash, package_id)
        package == CHOOSE p \in FindPackage(f.sources[source_hash].packages, package_id) : TRUE
        token_id == TokenId(f.next_token_id)
        pass_data == [source_hash |-> source_hash,
                      package_id |-> package_id,
                      started_at |-> Now,
                      expires_at |-> ExpiresAt(package.duration_days, Now),
                      amount_paid_usdc_cents |-> amount_paid_usdc_cents]
    IN  IF result = "ok"
        THEN FeedCommit("mint_access_pass", args, token_id,
                        [f EXCEPT !.next_token_id = @ + 1,
                                  !.tokens_by_id = Insert(@, token_id, [owner_id |-> receiver_id]),
                                  !.access_pass_data = Insert(@, token_id, pass_data),
                                  !.tokens_per_owner = AddToOwner(@, receiver_id, token_id),
                                  !.sources[source_hash].subscriber_count = @ + 1])
        ELSE FeedReject("mint_access_pass", args, result)

\* a pass that never runs out
PassValid_IgnoresExpiry(pass_data, source_hash, now) ==
    pass_data.source_hash = source_hash

\* the two tests has_access makes on a pass: the source, then the expiry (0 = lifetime)
PassValid(pass_data, source_hash, now) ==
    /\ pass_data.source_hash = source_hash
    /\ ~(TimeLess(TimeZero, pass_data.expires_at) /\ TimeLess(pass_data.expires_at, now))

\* has_access: some token in the account's set has pass data that is valid
HasAccessOf(f, account_id, source_hash, now) ==
    /\ account_id \in DOMAIN f.tokens_per_owner
    /\ \E token_id \in f.tokens_per_owner[account_id] :
           /\ token_id \in DOMAIN f.access_pass_data
           /\ PassValid(f.access_pass_data[token_id], source_hash, now)

\* the exclusion test made before the test for a free post
HasPostAccessOf_ExclusionFirst(f, account_id, post_id, now) ==
    IF post_id \notin DOMAIN f.posts THEN FALSE
    ELSE IF post_id \in DOMAIN f.post_exclusions /\ account_id \in f.post_exclusions[post_id]
    THEN FALSE
    ELSE IF ~f.posts[post_id].is_premium THEN TRUE
    ELSE HasAccessOf(f, account_id, f.posts[post_id].source_hash, now)

\* has_post_access
HasPostAccessOf(f, account_id, post_id, now) ==
    IF post_id \notin DOMAIN f.posts THEN FALSE
    ELSE IF ~f.posts[post_id].is_premium THEN TRUE
    ELSE IF post_id \in DOMAIN f.post_exclusions /\ account_id \in f.post_exclusions[post_id]
    THEN FALSE
    ELSE HasAccessOf(f, account_id, f.posts[post_id].source_hash, now)

HasAccess(account_id, source_hash) ==
    FeedView("has_access", [account_id |-> account_id, source_hash |-> source_hash],
             HasAccessOf(humint_feed, account_id, source_hash, Now))

HasPostAccess(account_id, post_id) ==
    FeedView("has_post_access", [account_id |-> account_id, post_id |-> post_id],
             HasPostAccessOf(humint_feed, account_id, post_id, Now))

AddExclusionResult(f, caller, post_id) ==
    IF post_id \notin DOMAIN f.posts THEN "Post not found"
    ELSE IF caller # f.owner_id THEN "Only owner can add exclusions"
    ELSE "ok"

AddExclusion(caller, post_id, excluded_account) ==
    LET f == humint_feed
        args == [caller |-> caller, post_id |-> post_id,
                 excluded_account |-> excluded_account]
        result == AddExclusionResult(f, caller, post_id)
    IN  IF result = "ok"
        THEN FeedCommit("add_exclusion", args, <<>>,
                        [f EXCEPT !.post_exclusions =
                                      IF post_id \in DOMAIN @
                                      THEN [@ EXCEPT ![post_id] = @ \cup {excluded_account}]
                                      ELSE Insert(@, post_id, {excluded_account})])
        ELSE FeedReject("add_exclusion", args, result)

RemoveExclusion(caller, post_id, excluded_account) ==
    LET f == humint_feed
        args == [caller |-> caller, post_id |-> post_id,
                 excluded_account |-> excluded_account]
    IN  IF caller = f.owner_id
        THEN FeedCommit("remove_exclusion", args, <<>>,
                        [f EXCEPT !.post_exclusions =
                                      IF post_id \in DOMAIN @
                                      THEN [@ EXCEPT ![post_id] = @ \ {excluded_account}]
                                      ELSE @])
        ELSE FeedReject("remove_exclusion", args, "Only owner can remove exclusions")

TransferResult(f, sender_id, token_id, attached_deposit) ==
    IF attached_deposit < 1 THEN "Requires 1 yoctoNEAR"
    ELSE IF token_id \notin DOMAIN f.tokens_by_id THEN "Token not found"
    ELSE IF f.tokens_by_id[token_id].owner_id # sender_id THEN "Not token owner"
    ELSE "ok"

\* the token added to the receiver's set and left in the sender's
TransferredIndex_KeepsSender(tokens_per_owner, sender_id, receiver_id, token_id) ==
    AddToOwner(tokens_per_owner, receiver_id, token_id)

\* tokens_per_owner after a transfer: the token leaves the sender's set, then
\* enters the receiver's
TransferredIndex(tokens_per_owner, sender_id, receiver_id, token_id) ==
    LET removed == IF sender_id \in DOMAIN tokens_per_owner
                   THEN [tokens_per_owner EXCEPT ![sender_id] = @ \ {token_id}]
                   ELSE tokens_per_owner
    IN  AddToOwner(removed, receiver_id, token_id)

NftTransfer(sender_id, attached_deposit, receiver_id, token_id) ==
    LET f == humint_feed
        args == [sender_id |-> sender_id, attached_deposit |-> attached_deposit,
                 receiver_id |-> receiver_id, token_id |-> token_id]
        result == TransferResult(f, sender_id, token_id, attached_deposit)
    IN  IF result = "ok"
        THEN FeedCommit("nft_transfer", args, <<>>,
                        [f EXCEPT !.tokens_per_owner =
                                      TransferredIndex(@, sender_id, receiver_id, token_id),
                                  !.tokens_by_id =
                                      Insert(@, token_id, [owner_id |-> receiver_id])])
        ELSE FeedReject("nft_transfer", args, result)

---------------------------------------------------------------------------
(* ArgusContentGate (contracts/phala-content-gate/src/lib.rs): AES keys    *)
(* per list, released to decrypt content for an account whose access the   *)
(* NFT contract confirms over NEAR RPC.  content_gate is the contract's    *)
(* struct.  A Result is "ok" with a value, or the name of the Error.  An   *)
(* HTTP response is whatever the remote end sends: a status code and a     *)
(* body.  AES-256-GCM is modelled by what it guarantees: data opens under  *)
(* a key exactly when it was sealed under that key.                        *)

GateDeployer == "deployer"
GateAccounts == {GateDeployer, "operator"}

\* ArgusContentGate::new()
ContentGateNew ==
    [admin |-> GateDeployer,
     list_keys |-> <<>>,
     near_rpc |-> "https://rpc.mainnet.fastnear.com",
     nft_contract |-> "source-lists.argus-intel.near"]

\* a step of the gate leaves the other contracts and the host clock alone
ContentGateOnly ==
    UNCHANGED <<store, block_height, block_timestamp, elapsed_days, data_registry,
                humint_feed, source_list_nft>>

\* a message of the gate: its Result, and what the access check and the IPFS
\* fetch answered on the way ("none" when the message did not come to them)
GateAnswer(op, args, result, value, access, fetched) ==
    /\ last' = [op |-> op, result |-> result, args |-> args, found |-> FALSE,
                value |-> value, access |-> access, fetched |-> fetched]
    /\ ContentGateOnly

\* an admin message: Unauthorized for any other caller
AdminMessage(op, caller, args, gate) ==
    IF caller # content_gate.admin
    THEN /\ GateAnswer(op, args, "Unauthorized", <<>>, "none", "none")
         /\ UNCHANGED <<content_gate, ncalls>>
    ELSE /\ GateAnswer(op, args, "ok", <<>>, "none", "none")
         /\ content_gate' = gate
         /\ ncalls' = ncalls + 1

RegisterList(caller, list_id, aes_key) ==
    AdminMessage("register_list", caller,
                 [caller |-> caller, list_id |-> list_id, aes_key |-> aes_key],
                 [content_gate EXCEPT !.list_keys = Insert(@, list_id, aes_key)])

SetNearRpc(caller, rpc_url) ==
    AdminMessage("set_near_rpc", caller, [caller |-> caller, rpc_url |-> rpc_url],
                 [content_gate EXCEPT !.near_rpc = rpc_url])

SetNftContract(caller, contract) ==
    AdminMessage("set_nft_contract", caller, [caller |-> caller, contract |-> contract],
                 [content_gate EXCEPT !.nft_contract = contract])

TransferAdmin(caller, new_admin) ==
    AdminMessage("transfer_admin", caller, [caller |-> caller, new_admin |-> new_admin],
                 [content_gate EXCEPT !.admin = new_admin])

HasList(list_id) ==
    /\ GateAnswer("has_list", [list_id |-> list_id], "ok",
                  list_id \in DOMAIN content_gate.list_keys, "none", "none")
    /\ UNCHANGED <<content_gate, ncalls>>

\* body_str.contains(pattern)
Contains(s, pattern) ==
    \E i \in 1..(Len(s) - Len(pattern) + 1) : SubSeq(s, i, i + Len(pattern) - 1) = pattern

ResultKey == <<"\"", "r", "e", "s", "u", "l", "t", "\"">>
TrueBase64 == <<"d", "H", "J", "1", "Z", "Q">>
TrueText == <<"t", "r", "u", "e">>

\* check_near_nft_access on the response of the RPC node: "true", "false", or
\* the Error
NearNftAccess(response) ==
    IF response.status_code # 200 THEN "HttpError"
    ELSE IF Contains(response.body, ResultKey)
    THEN IF Contains(response.body, TrueBase64) \/ Contains(response.body, TrueText)
         THEN "true"
         ELSE "false"
    ELSE "InvalidNearResponse"

\* nonce (12 bytes) || ciphertext || tag (16 bytes), sealed under a key
Sealed(key, plaintext) == [key |-> key, plaintext |-> plaintext, len |-> 12 + Len(plaintext) + 16]

\* bytes that no key opens
Garbage(len) == [key |-> <<>>, plaintext |-> <<>>, len |-> len]

\* decrypt_aes_gcm
DecryptAesGcm(key, data) ==
    IF data.len < 28 THEN [result |-> "DecryptionFailed", value |-> <<>>]
    ELSE IF data.key = key THEN [result |-> "ok", value |-> data.plaintext]
    ELSE [result |-> "DecryptionFailed", value |-> <<>>]

\* fetch_ipfs on the response of the gateway
FetchIpfs(response) ==
    IF response.status_code # 200
    THEN [result |-> "HttpError", value |-> <<>>]
    ELSE [result |-> "ok", value |-> response.body]

\* an Err, with what the access check and the IPFS fetch answered before it
Failed(result, access, fetched) ==
    [result |-> result, value |-> <<>>, access |-> access, fetched |-> fetched]

DecryptForHolderResult(gate, list_id, signature, encrypted_content, rpc_response) ==
    LET access == NearNftAccess(rpc_response)
    IN  IF Len(signature) # 64 THEN Failed("InvalidSignature", "none", "none")
        ELSE IF access \notin {"true", "false"} THEN Failed(access, access, "none")
        ELSE IF access = "false" THEN Failed("NoAccess", access, "none")
        ELSE IF list_id \notin DOMAIN gate.list_keys
        THEN Failed("ListNotFound", access, "none")
        ELSE [access |-> access, fetched |-> "none"]
             @@ DecryptAesGcm(gate.list_keys[list_id], encrypted_content)

DecryptForHolder(list_id, near_account, signature, message, encrypted_content, rpc_response) ==
    LET r == DecryptForHolderResult(content_gate, list_id, signature, encrypted_content,
                                    rpc_response)
    IN  /\ GateAnswer("decrypt_for_holder",
                      [list_id |-> list_id, near_account |-> near_account,
                       signature |-> signature, message |-> message,
                       encrypted_content |-> encrypted_content],
                      r.result, r.value, r.access, r.fetched)
        /\ UNCHANGED <<content_gate, ncalls>>

FetchAndDecryptResult(gate, list_id, signature, rpc_response, ipfs_response) ==
    LET access == NearNftAccess(rpc_response)
        encrypted == FetchIpfs(ipfs_response)
    IN  IF Len(signature) # 64 THEN Failed("InvalidSignature", "none", "none")
        ELSE IF access \notin {"true", "false"} THEN Failed(access, access, "none")
        ELSE IF access = "false" THEN Failed("NoAccess", access, "none")
        ELSE IF encrypted.result # "ok" THEN Failed(encrypted.result, access, encrypted.result)
        ELSE IF list_id \notin DOMAIN gate.list_keys
        THEN Failed("ListNotFound", access, "ok")
        ELSE [access |-> access, fetched |-> "ok"]
             @@ DecryptAesGcm(gate.list_keys[list_id], encrypted.value)

FetchAndDecrypt(list_id, near_account, signature, message, ipfs_cid, rpc_response, ipfs_response) ==
    LET r == FetchAndDecryptResult(content_gate, list_id, signature, rpc_response,
                                   ipfs_response)
    IN  /\ GateAnswer("fetch_and_decrypt",
                      [list_id |-> list_id, near_account |-> near_account,
                       signature |-> signature, message |-> message,
                       ipfs_cid |-> ipfs_cid],
                      r.result, r.value, r.access, r.fetched)
        /\ UNCHANGED <<content_gate, ncalls>>

GetAdmin ==
    /\ GateAnswer("get_admin", <<>>, "ok", content_gate.admin, "none", "none")
    /\ UNCHANGED <<content_gate, ncalls>>

---------------------------------------------------------------------------
(* SourceListNFT (contracts/source-list-nft/src/lib.rs): one NFT per       *)
(* curated source list, sold by its owner with a royalty for its creator.  *)
(* source_list_nft is the contract's struct.  Amounts are yoctoNEAR; the   *)
(* product price * royalty_percent of a purchase that commits stays far    *)
(* below 2^128, because the price is covered by the attached deposit.      *)
(* The Promise a purchase returns is the sequence of its transfers.        *)

\* SourceListNFT::new(owner_id)
SourceListNFTNew(owner_id) ==
    [owner_id |-> owner_id,
     tokens_per_owner |-> <<>>,
     tokens_by_id |-> <<>>,
     token_metadata_by_id |-> <<>>,
     list_metadata_by_id |-> <<>>,
     next_token_id |-> 1]

\* a step of the NFT contract leaves the other contracts and the host clock alone
SourceListNFTOnly ==
    UNCHANGED <<store, block_height, block_timestamp, elapsed_days, data_registry,
                humint_feed, content_gate>>

\* a committed call of the NFT contract that writes the struct nft
ListCommit(op, args, value, nft) ==
    /\ source_list_nft' = nft
    /\ ncalls' = ncalls + 1
    /\ last' = Returned(op, args, FALSE, value)
    /\ SourceListNFTOnly

\* a call of the NFT contract that panics
ListReject(op, args, result) ==
    /\ last' = Rejected(op, args, result)
    /\ UNCHANGED <<source_list_nft, ncalls>>
    /\ SourceListNFTOnly

\* a view call of the NFT contract
ListView(op, args, value) ==
    /\ last' = Answered(op, args, value)
    /\ UNCHANGED <<source_list_nft, ncalls>>
    /\ SourceListNFTOnly

\* format!("srclist-{}", n)
ListTokenId(n) == <<"s", "r", "c", "l", "i", "s", "t", "-">> \o Decimal(n)

\* royalty_percent.unwrap_or(10)
DefaultRoyalty == 10

\* require!(royalty <= 50, ...)
MaxRoyalty == 50

\* u16
U16Modulus == 65536

RoyaltyOf(royalty_percent) ==
    IF royalty_percent = None THEN DefaultRoyalty ELSE CHOOSE r \in royalty_percent : TRUE

\* format!("{{\"domain\":\"{}\",\"sources\":{}}}", domain, source_count)
ExtraOf(domain, source_count) ==
    <<"{", "\"", "d", "o", "m", "a", "i", "n", "\"", ":", "\"">> \o domain
    \o <<"\"", ",", "\"", "s", "o", "u", "r", "c", "e", "s", "\"", ":">>
    \o Decimal(source_count) \o <<"}">>

\* format!("ipfs://{}", cid)
ReferenceOf(cid) == <<"i", "p", "f", "s", ":", "/", "/">> \o cid

NewToken(owner_id) == [owner_id |-> owner_id, next_approval_id |-> 0]

NewTokenMetadata(name, description, cid, source_count, domain, timestamp) ==
    [title |-> Some(name),
     description |-> Some(description),
     media |-> None,
     media_hash |-> None,
     copies |-> Some(1),
     issued_at |-> Some(Decimal(timestamp)),
     expires_at |-> None,
     starts_at |-> None,
     updated_at |-> Some(Decimal(timestamp)),
     extra |-> Some(ExtraOf(domain, source_count)),
     reference |-> Some(ReferenceOf(cid)),
     reference_hash |-> None]

NewListMetadata(cid, source_count, domain, creator, timestamp, price, royalty) ==
    [cid |-> cid,
     source_count |-> source_count,
     domain |-> domain,
     creator |-> creator,
     is_active |-> TRUE,
     updated_at |-> timestamp,
     price |-> price,
     royalty_percent |-> royalty,
     total_subscribers |-> 0,
     avg_rating |-> 0,
     rating_count |-> 0]

Mint(caller, name, description, cid, source_count, domain, price, royalty_percent) ==
    LET nft == source_list_nft
        args == [caller |-> caller, name |-> name, description |-> description,
                 cid |-> cid, source_count |-> source_count, domain |-> domain,
                 price |-> price, royalty_percent |-> royalty_percent]
        token_id == ListTokenId(nft.next_token_id)
        royalty == RoyaltyOf(royalty_percent)
    IN  IF ~(royalty <= MaxRoyalty)
        THEN ListReject("mint", args, "Royalty cannot exceed 50%")
        ELSE ListCommit("mint", args, token_id,
                 [nft EXCEPT
                     !.next_token_id = @ + 1,
                     !.tokens_by_id = Insert(@, token_id, NewToken(caller)),
                     !.token_metadata_by_id =
                         Insert(@, token_id,
                                NewTokenMetadata(name, description, cid, source_count,
                                                 domain, block_timestamp)),
                     !.list_metadata_by_id =
                         Insert(@, token_id,
                                NewListMetadata(cid, source_count, domain, caller,
                                                block_timestamp, price, royalty)),
                     !.tokens_per_owner = AddToOwner(@, caller, token_id)])

\* the checks update_list and set_price share, with the message of each
OwnerCallResult(nft, caller, token_id, message) ==
    IF token_id \notin DOMAIN nft.tokens_by_id THEN "Token not found"
    ELSE IF nft.tokens_by_id[token_id].owner_id # caller THEN message
    ELSE IF token_id \notin DOMAIN nft.list_metadata_by_id THEN "Metadata not found"
    ELSE "ok"

UpdateList(caller, token_id, new_cid, new_source_count) ==
    LET nft == source_list_nft
        args == [caller |-> caller, token_id |-> token_id, new_cid |-> new_cid,
                 new_source_count |-> new_source_count]
        result == OwnerCallResult(nft, caller, token_id, "Only owner can update")
    IN  IF result = "ok"
        THEN ListCommit("update_list", args, <<>>,
                 [nft EXCEPT !.list_metadata_by_id[token_id] =
                     [@ EXCEPT !.cid = new_cid,
                               !.source_count = new_source_count,
                               !.updated_at = block_timestamp]])
        ELSE ListReject("update_list", args, result)

SetPrice(caller, token_id, price) ==
    LET nft == source_list_nft
        args == [caller |-> caller, token_id |-> token_id, price |-> price]
        result == OwnerCallResult(nft, caller, token_id, "Only owner can set price")
    IN  IF result = "ok"
        THEN ListCommit("set_price", args, <<>>,
                 [nft EXCEPT !.list_metadata_by_id[token_id].price = price])
        ELSE ListReject("set_price", args, result)

RateResult(nft, token_id, rating) ==
    IF ~(rating >= 1 /\ rating <= 5) THEN "Rating must be 1-5"
    ELSE IF token_id \notin DOMAIN nft.list_metadata_by_id THEN "Token not found"
    ELSE "ok"

\* the metadata with one more rating in its average
Rated(list_metadata, rating) ==
    LET total == list_metadata.avg_rating * list_metadata.rating_count + rating * 100
        count == list_metadata.rating_count + 1
    IN  [list_metadata EXCEPT !.rating_count = count,
                              !.avg_rating = (total \div count) % U16Modulus]

RateList(caller, token_id, rating) ==
    LET nft == source_list_nft
        args == [caller |-> caller, token_id |-> token_id, rating |-> rating]
        result == RateResult(nft, token_id, rating)
    IN  IF result = "ok"
        THEN ListCommit("rate_list", args, <<>>,
                 [nft EXCEPT !.list_metadata_by_id[token_id] = Rated(@, rating)])
        ELSE ListReject("rate_list", args, result)

\* mutant: the token stays in the set of the account it leaves
MovedToken_KeepsSender(tokens_per_owner, from, to, token_id) ==
    AddToOwner(tokens_per_owner, to, token_id)

\* tokens_per_owner after internal_transfer: the token leaves the set of
\* from, if from has one, and enters the set of to
MovedToken(tokens_per_owner, from, to, token_id) ==
    AddToOwner(IF from \in DOMAIN tokens_per_owner
               THEN [tokens_per_owner EXCEPT ![from] = @ \ {token_id}]
               ELSE tokens_per_owner,
               to, token_id)

InternalTransfer(nft, from, to, token_id) ==
    [nft EXCEPT
        !.tokens_per_owner = MovedToken(@, from, to, token_id),
        !.tokens_by_id =
            IF token_id \in DOMAIN @
            THEN [@ EXCEPT ![token_id] = [@ EXCEPT !.owner_id = to]]
            ELSE @]

PurchaseResult(nft, buyer, deposit, token_id) ==
    IF token_id \notin DOMAIN nft.tokens_by_id THEN "Token not found"
    ELSE IF token_id \notin DOMAIN nft.list_metadata_by_id THEN "Metadata not found"
    ELSE IF nft.list_metadata_by_id[token_id].price = None THEN "NFT not for sale"
    ELSE IF ~(deposit >= (CHOOSE p \in nft.list_metadata_by_id[token_id].price : TRUE))
    THEN "Insufficient deposit"
    ELSE IF nft.tokens_by_id[token_id].owner_id = buyer THEN "Cannot buy your own NFT"
    ELSE "ok"

\* price * royalty_percent / 100
RoyaltyAmount(price, royalty_percent) == (price * royalty_percent) \div 100

Transfer(receiver, amount) == [receiver |-> receiver, amount |-> amount]

\* Promise::new(seller).transfer(seller_amount), joined with the transfer of
\* the royalty when there is one and the creator is not the seller
Payouts(seller, creator, price, royalty_percent) ==
    LET royalty_amount == RoyaltyAmount(price, royalty_percent)
        seller_amount == price - royalty_amount
    IN  IF royalty_amount > 0 /\ creator # seller
        THEN <<Transfer(seller, seller_amount), Transfer(creator, royalty_amount)>>
        ELSE <<Transfer(seller, seller_amount)>>

Purchase(buyer, deposit, token_id) ==
    LET nft == source_list_nft
        args == [caller |-> buyer, deposit |-> deposit, token_id |-> token_id]
        result == PurchaseResult(nft, buyer, deposit, token_id)
    IN  IF result = "ok"
        THEN LET list_metadata == nft.list_metadata_by_id[token_id]
                 price == CHOOSE p \in list_metadata.price : TRUE
                 seller == nft.tokens_by_id[token_id].owner_id
             IN  /\ source_list_nft' = InternalTransfer(nft, seller, buyer, token_id)
                 /\ ncalls' = ncalls + 1
                 /\ last' = [op |-> "purchase", result |-> "ok", args |-> args,
                             found |-> FALSE,
                             value |-> Payouts(seller, list_metadata.creator, price,
                                               list_metadata.royalty_percent),
                             seller |-> seller,
                             creator |-> list_metadata.creator,
                             price |-> price,
                             royalty_percent |-> list_metadata.royalty_percent]
                 /\ SourceListNFTOnly
        ELSE ListReject("purchase", args, result)

\* self.tokens_by_id.get(&token_id).map(|t| t.owner_id == account_id).unwrap_or(false)
ListHasAccessOf(nft, account_id, token_id) ==
    /\ token_id \in DOMAIN nft.tokens_by_id
    /\ nft.tokens_by_id[token_id].owner_id = account_id

ListHasAccess(account_id, token_id) ==
    ListView("has_access", [account_id |-> account_id, token_id |-> token_id],
             ListHasAccessOf(source_list_nft, account_id, token_id))

\* self.tokens_per_owner.get(&account_id): the ids of the set, or none
ListsForOwner(nft, account_id) ==
    IF account_id \in DOMAIN nft.tokens_per_owner
    THEN nft.tokens_per_owner[account_id] ELSE {}

ListTransferResult(nft, sender, token_id) ==
    IF token_id \notin DOMAIN nft.tokens_by_id THEN "Token not found"
    ELSE IF nft.tokens_by_id[token_id].owner_id # sender THEN "Not token owner"
    ELSE "ok"

ListNftTransfer(sender, receiver_id, token_id) ==
    LET nft == source_list_nft
        args == [caller |-> sender, receiver_id |-> receiver_id, token_id |-> token_id]
        result == ListTransferResult(nft, sender, token_id)
    IN  IF result = "ok"
        THEN ListCommit("nft_transfer", args, <<>>,
                        InternalTransfer(nft, sender, receiver_id, token_id))
        ELSE ListReject("nft_transfer", args, result)

---------------------------------------------------------------------------
(* new(owner) and the specifications *)

Init ==
    /\ proofs = <<>>
    /\ attestations = <<>>
    /\ source_stats = <<>>
    /\ intel_proofs = <<>>
    /\ total_proofs = 0
    /\ total_attestations = 0
    /\ owner = OwnerAccount
    /\ block_height = InitHeight
    /\ block_timestamp = InitTimestamp
    /\ ncalls = 0
    /\ last = Committed("new", [owner |-> OwnerAccount], FALSE)
    /\ data_registry = DataRegistryNew
    /\ humint_feed = HumintFeedNew(OwnerAccount, FeeBps)
    /\ elapsed_days = 0
    /\ content_gate = ContentGateNew
    /\ source_list_nft = SourceListNFTNew(OwnerAccount)

\* one call of the public mutating interface, within the bound on committed calls
Call(regs, atts, refs) ==
    \/ \E req \in regs : RegisterProof(req) /\ ncalls' <= MaxCalls
    \/ \E req \in atts :
           Attest(req.caller, req.proof_id, req.confidence, req.note) /\ ncalls' <= MaxCalls
    \/ \E req \in refs :
           RefuteProof(req.caller, req.proof_id, req.reason) /\ ncalls' <= MaxCalls

\* A rejected call changes nothing but the record of the latest step, so every
\* state of the store is reached by committed calls alone.
Next ==
    \/ AdvanceBlock
    \/ \E req \in RegisterInputs :
           RegisterProof(req) /\ last'.result = "ok" /\ ncalls' <= MaxCalls
    \/ \E req \in AttestInputs :
           /\ Attest(req.caller, req.proof_id, req.confidence, req.note)
           /\ last'.result = "ok" /\ ncalls' <= MaxCalls
    \/ \E req \in RefuteInputs :
           /\ RefuteProof(req.caller, req.proof_id, req.reason)
           /\ last'.result = "ok" /\ ncalls' <= MaxCalls

Spec == Init /\ [][Next]_vars

\* All calls on well-formed proofs, rejected ones too.
NextCalls ==
    Call(RegisterInputs,
         {req \in AttestInputs : req.proof_id = P1} \cup OddAttestInputs,
         RefuteInputs \cup OddRefuteInputs)

SpecCalls == Init /\ [][NextCalls]_vars

\* Registration with malformed arguments among the inputs.
NextRegister ==
    Call(RegisterInputs \cup MalformedInputs,
         {req \in AttestInputs : req.caller = "alice.near" /\ req.confidence = 70},
         {req \in RefuteInputs : req.caller = OwnerAccount /\ req.proof_id = P1})

SpecRegister == Init /\ [][NextRegister]_vars

\* Attestations of one proof over more confidence values, committed calls only.
UniformConfidences == {1, 29, 70, 80, 85, 100}

NextAttest ==
    \/ \E req \in {r \in RegisterInputs : r.proof_id = P1} :
           RegisterProof(req) /\ last'.result = "ok" /\ ncalls' <= MaxCalls
    \/ \E a \in Accounts, c \in UniformConfidences :
           Attest(a, P1, c, None) /\ last'.result = "ok" /\ ncalls' <= MaxCalls

SpecAttest == Init /\ [][NextAttest]_vars

\* one proof; one attestor re-attests with other confidences and notes while
\* the clock advances, the two others attest in between
EntryInputs ==
    {AttestRequest("alice.near", P1, c, n) : c \in {29, 70}, n \in {None, Some(ShortNote)}}
    \cup {AttestRequest(a, P1, 70, None) : a \in Accounts \ {"alice.near"}}

NextEntries ==
    \/ AdvanceBlock
    \/ \E req \in {r \in RegisterInputs : r.proof_id = P1} :
           RegisterProof(req) /\ last'.result = "ok" /\ ncalls' <= MaxCalls
    \/ \E req \in EntryInputs :
           /\ Attest(req.caller, req.proof_id, req.confidence, req.note)
           /\ last'.result = "ok" /\ ncalls' <= MaxCalls

SpecEntries == Init /\ [][NextEntries]_vars

\* the views, asked in the states reached by registering two proofs with or
\* without a common intel claim, attesting and refuting them
ViewCalls == 4

UpperA == Rep("A", 64)

ViewRegisters ==
    {RegisterRequest(P1, HashA, "LocationProximity", HashA, HashA, HashA, None),
     RegisterRequest(P2, HashB, "TimestampRange", HashA, HashA, HashA, None),
     RegisterRequest(P2, HashA, "TimestampRange", HashB, HashB, HashA, None)}

ViewAttests ==
    {AttestRequest("alice.near", id, 70, None) : id \in ProofIds}
    \cup {AttestRequest("bob.near", P1, 29, None)}

ViewRefutes == {RefuteRequest(OwnerAccount, id, ShortReason) : id \in ProofIds}

ViewHashes == {HashA, HashB}

ViewCandidates == {HashA, HashB, UpperA, Short63}

ViewLimits == 0..3

NextViews ==
    \/ AdvanceBlock
    \/ \E req \in ViewRegisters :
           RegisterProof(req) /\ last'.result = "ok" /\ ncalls' <= ViewCalls
    \/ \E req \in ViewAttests :
           /\ Attest(req.caller, req.proof_id, req.confidence, req.note)
           /\ last'.result = "ok" /\ ncalls' <= ViewCalls
    \/ \E req \in ViewRefutes :
           /\ RefuteProof(req.caller, req.proof_id, req.reason)
           /\ last'.result = "ok" /\ ncalls' <= ViewCalls
    \/ \E h \in ViewHashes : GetSourceStats(h)
    \/ \E h \in ViewHashes : GetIntelProofs(h)
    \/ \E id \in ProofIds, c \in ViewCandidates : VerifyCommitment(id, c)
    \/ \E limit \in ViewLimits : GetRecentProofs(limit)
    \/ GetStats

SpecViews == Init /\ [][NextViews]_vars

\* test_source_reputation: five proofs of one source with five intel hashes,
\* attested at confidence 80 by one attestor
ScenarioProofs == 0..4

\* format!("proof-{:03}", i)
ScenarioProofId(i) == <<"p", "r", "o", "o", "f", "-", "0", "0", DecimalDigits[i + 1]>>

\* format!("{:064}", i)
ScenarioIntel(i) == Rep("0", 63) \o <<DecimalDigits[i + 1]>>

ScenarioAttestor == "attestor.near"

ScenarioConfidence == 80

ScenarioRegisters ==
    {RegisterRequest(ScenarioProofId(i), HashA, "TimestampRange", HashA, ScenarioIntel(i),
                     HashA, None) : i \in ScenarioProofs}

NextScenario ==
    \/ \E req \in ScenarioRegisters :
           RegisterProof(req) /\ last'.result = "ok" /\ ncalls' <= ScenarioCalls
    \/ \E i \in ScenarioProofs :
           /\ Attest(ScenarioAttestor, ScenarioProofId(i), ScenarioConfidence, None)
           /\ last'.result = "ok" /\ ncalls' <= ScenarioCalls
    \/ GetSourceReputation(HashA)

SpecScenario == Init /\ [][NextScenario]_vars

\* get_source_reputation reads one SourceStats record and nothing else.
\* SpecReputation applies it to the records the mutating calls can leave
\* behind for a source: total_proofs >= 1, every first-time attestation adds
\* 1 to total_attestations and 1..100 to confidence_sum, verified_count
\* grows with every attest call that ends Verified, refuted_count with
\* every refute_proof call.  The zero record and the unseen source exercise
\* the two early returns.
MaxRepProofs == 3
MaxRepCount == 4
MaxRepAttestations == 3
MaxRepSpread == 3

ReputationSums(ta) ==
    {c \in ta..(100 * ta) :
        c <= ta + MaxRepSpread \/ c \in {30 * ta - 1, 30 * ta, 30 * ta + 1, 100 * ta}}

ReputationInputs ==
    {DefaultStats}
    \cup {st \in [total_proofs : 1..MaxRepProofs,
                  total_attestations : 0..MaxRepAttestations,
                  confidence_sum : 0..(100 * MaxRepAttestations),
                  verified_count : 0..MaxRepCount,
                  refuted_count : 0..MaxRepCount,
                  first_proof_height : {InitHeight},
                  last_proof_height : {InitHeight}] :
             /\ st.confidence_sum \in ReputationSums(st.total_attestations)
             /\ st.verified_count > 0 => st.total_attestations > 0}

InitReputation ==
    /\ proofs = <<>>
    /\ attestations = <<>>
    /\ \/ source_stats = <<>>
       \/ \E st \in ReputationInputs : source_stats = Insert(<<>>, HashA, st)
    /\ intel_proofs = <<>>
    /\ total_proofs = 0
    /\ total_attestations = 0
    /\ owner = OwnerAccount
    /\ block_height = InitHeight
    /\ block_timestamp = InitTimestamp
    /\ ncalls = 0
    /\ last = Committed("new", [owner |-> OwnerAccount], FALSE)
    /\ data_registry = DataRegistryNew
    /\ humint_feed = HumintFeedNew(OwnerAccount, FeeBps)
    /\ elapsed_days = 0
    /\ content_gate = ContentGateNew
    /\ source_list_nft = SourceListNFTNew(OwnerAccount)

NextReputation == GetSourceReputation(HashA)

SpecReputation == InitReputation /\ [][NextReputation]_vars

---------------------------------------------------------------------------
(* Properties *)

Registered == DOMAIN proofs

\* the committed call of the latest step, if it is one of op
CommittedCall(l, op) == l.op = op /\ l.result = "ok"

\* sum and floor of the mean of the confidences of a collection, by index
LiveSum(vec) ==
    LET RECURSIVE Sum(_)
        Sum(n) == IF n = 0 THEN 0 ELSE vec[n].confidence + Sum(n - 1)
    IN  Sum(Len(vec))

FloorMean(vec) == IF Len(vec) = 0 THEN 0 ELSE LiveSum(vec) \div Len(vec)

EntriesOf(vec, attestor) == {i \in 1..Len(vec) : vec[i].attestor = attestor}

\* C1: in every reachable state every registered proof has attestation_count
\* equal to the number of entries of its attestation collection and
\* avg_confidence equal to the floor of the mean of their confidences, 0 when
\* the collection is empty.
C1_AggregateMatchesLedger ==
    \A id \in Registered :
        /\ id \in DOMAIN attestations
        /\ proofs[id].attestation_count = Len(attestations[id])
        /\ proofs[id].avg_confidence = FloorMean(attestations[id])

\* a proof with two entries whose mean is not an integer: (29 + 70) / 2
C1_Witness ==
    \E id \in Registered :
        /\ Len(attestations[id]) = 2
        /\ LiveSum(attestations[id]) = 99
        /\ proofs[id].avg_confidence = 49

\* C2: in every reachable state a proof's attestation collection holds at most
\* one entry of each attestor.
C2_OneEntryPerAttestor ==
    \A id \in DOMAIN attestations : \A a \in Accounts :
        Cardinality(EntriesOf(attestations[id], a)) <= 1

\* an attestor has attested again on a proof that has entries of two attestors
C2_Witness ==
    /\ CommittedCall(last, "attest")
    /\ last.found
    /\ Len(attestations[last.args.proof_id]) = 2

\* C3: an attest call of an attestor who has an entry on the proof leaves
\* attestation_count and the length of the collection as they were, and
\* avg_confidence is the floor mean with the new confidence in place of the
\* attestor's previous one.
C3_ReattestStep ==
    CommittedCall(last', "attest")
        /\ last'.args.proof_id \in Registered
        /\ EntriesOf(attestations[last'.args.proof_id], last'.args.caller) # {}
    => LET id == last'.args.proof_id
           old == attestations[id]
           i == CHOOSE k \in EntriesOf(old, last'.args.caller) : TRUE
       IN  /\ proofs'[id].attestation_count = proofs[id].attestation_count
           /\ Len(attestations'[id]) = Len(old)
           /\ proofs'[id].avg_confidence =
                  (LiveSum(old) - old[i].confidence + last'.args.confidence) \div Len(old)

C3_ReattestKeepsCount == [][C3_ReattestStep]_vars

\* a second attestation of an attestor moved the mean of three entries
C3_Witness ==
    /\ CommittedCall(last, "attest")
    /\ last.found
    /\ proofs[last.args.proof_id].attestation_count = 3
    /\ last.args.confidence = 70
    /\ proofs[last.args.proof_id].avg_confidence = 42

\* C4: right after a committed attest call the proof is Verified when its
\* avg_confidence is at least 70 and Contested when it is below 70, whatever its
\* status was before.
C4_StatusAfterAttest ==
    CommittedCall(last, "attest") =>
        proofs[last.args.proof_id].status =
            IF proofs[last.args.proof_id].avg_confidence >= 70 THEN "Verified" ELSE "Contested"

\* the only proof was refuted and an attest call has made it Verified at the
\* threshold
C4_Witness ==
    /\ CommittedCall(last, "attest")
    /\ total_proofs = 1
    /\ \E s \in DOMAIN source_stats : source_stats[s].refuted_count = 1
    /\ proofs[last.args.proof_id].avg_confidence = 70
    /\ proofs[last.args.proof_id].status = "Verified"

\* C5: a registration followed by n >= 1 attest calls of n distinct accounts,
\* all with confidence c, gives attestation_count = n, avg_confidence = c, and
\* status Verified when c >= 70.
C5_UniformAttestations ==
    \A id \in Registered : \A c \in UniformConfidences :
        LET vec == attestations[id]
            n == Len(vec)
        IN  (/\ total_proofs = 1
             /\ n >= 1
             /\ ncalls = n + 1
             /\ \A i \in 1..n : vec[i].confidence = c)
            => /\ proofs[id].attestation_count = n
               /\ proofs[id].avg_confidence = c
               /\ (c >= 70 => proofs[id].status = "Verified")

\* three accounts have attested the fresh proof at confidence 80
C5_Witness ==
    /\ ncalls = 4
    /\ P1 \in Registered
    /\ Len(attestations[P1]) = 3
    /\ \A i \in 1..3 : attestations[P1][i].confidence = 80
    /\ proofs[P1].avg_confidence = 80
    /\ proofs[P1].status = "Verified"

\* one account has attested the fresh proof at confidence 85
C5_WitnessSingle ==
    /\ ncalls = 2
    /\ P1 \in Registered
    /\ Len(attestations[P1]) = 1
    /\ attestations[P1][1].confidence = 85
    /\ proofs[P1].avg_confidence = 85
    /\ proofs[P1].status = "Verified"

Is64Hex(h) == Len(h) = 64 /\ IsHex(h)

HashFields(req) ==
    {req.commitment, req.source_hash, req.intel_hash, req.public_inputs_hash}

\* C6: register_proof with a proof_id that is registered is rejected, with
\* "proof_id already exists" when the hash arguments pass the format checks
\* that come first, and leaves the store as it was.
C6_DuplicateStep ==
    last'.op = "register_proof" /\ last'.args.proof_id \in Registered
    => /\ last'.result # "ok"
       /\ (\A h \in HashFields(last'.args) : Len(h) = 64)
              => last'.result = "proof_id already exists"
       /\ UNCHANGED store

C6_DuplicateRejected == [][C6_DuplicateStep]_vars

\* a second registration of a proof that has an attestation was rejected
C6_Witness ==
    /\ last.op = "register_proof"
    /\ last.result = "proof_id already exists"
    /\ last.args.proof_id \in Registered
    /\ proofs[last.args.proof_id].attestation_count = 1
    /\ total_proofs = 2

\* C7: register_proof is rejected and persists nothing whenever one of
\* commitment, source_hash, intel_hash, public_inputs_hash is not exactly 64
\* hexadecimal characters.
C7_MalformedHashStep ==
    last'.op = "register_proof" /\ (\E h \in HashFields(last'.args) : ~Is64Hex(h))
    => last'.result # "ok" /\ UNCHANGED store

C7_MalformedHashRejected == [][C7_MalformedHashStep]_vars

\* C8: refute_proof by the owner on a registered proof with a reason of at
\* most 500 characters commits and leaves the proof Refuted, whatever the
\* proof's attestations and status are.
C8_OwnerRefuteStep ==
    /\ last'.op = "refute_proof"
    /\ last'.args.caller = owner
    /\ last'.args.proof_id \in Registered
    /\ Len(last'.args.reason) <= 500
    => /\ last'.result = "ok"
       /\ proofs'[last'.args.proof_id].status = "Refuted"

C8_OwnerRefuteSucceeds == [][C8_OwnerRefuteStep]_vars

\* the owner has refuted the only proof twice in a row
C8_Witness ==
    /\ CommittedCall(last, "refute_proof")
    /\ last.args.caller = owner
    /\ total_proofs = 1
    /\ ncalls = 3
    /\ \E s \in DOMAIN source_stats : source_stats[s].refuted_count = 2

\* the owner has refuted a Verified proof with a reason of 500 characters
C8_WitnessVerified ==
    /\ CommittedCall(last, "refute_proof")
    /\ last.args.caller = owner
    /\ Len(last.args.reason) = 500
    /\ proofs[last.args.proof_id].avg_confidence = 70
    /\ proofs[last.args.proof_id].attestation_count = 3

\* C9: refute_proof by an account other than the owner on a registered proof
\* with a reason of at most 500 characters commits exactly when the proof has
\* attestation_count >= 3 and avg_confidence < 30; otherwise it is rejected with
\* "not authorized to refute" and the store is as it was.
C9_OtherRefuteStep ==
    /\ last'.op = "refute_proof"
    /\ last'.args.caller # owner
    /\ last'.args.proof_id \in Registered
    /\ Len(last'.args.reason) <= 500
    => LET proof == proofs[last'.args.proof_id]
           allowed == proof.attestation_count >= 3 /\ proof.avg_confidence < 30
       IN  /\ last'.result = "ok" <=> allowed
           /\ ~allowed => last'.result = "not authorized to refute" /\ UNCHANGED store

C9_OtherRefuteNeedsAttestations == [][C9_OtherRefuteStep]_vars

\* an account other than the owner has refuted a proof
C9_Witness ==
    /\ CommittedCall(last, "refute_proof")
    /\ last.args.caller # owner
    /\ proofs[last.args.proof_id].status = "Refuted"

\* an account other than the owner was turned away from a proof with three
\* attestations
C9_WitnessRejected ==
    /\ last.op = "refute_proof"
    /\ last.result = "not authorized to refute"
    /\ last.args.proof_id \in Registered
    /\ proofs[last.args.proof_id].attestation_count = 3

\* C10: a committed refute_proof sets the proof's status to Refuted and adds 1
\* to refuted_count of the proof's source; nothing else of the proof, of its
\* attestation collection, of that source's counters, or of any other proof or
\* source changes.
C10_RefuteStep ==
    CommittedCall(last', "refute_proof") /\ last'.args.proof_id \in Registered
    => LET id == last'.args.proof_id
           src == proofs[id].source_hash
       IN  /\ proofs' = [proofs EXCEPT ![id].status = "Refuted"]
           /\ src \in DOMAIN source_stats
           /\ source_stats' =
                  [source_stats EXCEPT ![src].refuted_count = source_stats[src].refuted_count + 1]
           /\ UNCHANGED <<attestations, intel_proofs, total_proofs, total_attestations, owner>>

C10_RefuteFrame == [][C10_RefuteStep]_vars

\* a proof was refuted while a proof of another source has an attestation and
\* the refuted proof's source has a verified proof counted
C10_Witness ==
    /\ CommittedCall(last, "refute_proof")
    /\ \E other \in Registered :
           /\ proofs[other].source_hash # proofs[last.args.proof_id].source_hash
           /\ proofs[other].attestation_count = 1
    /\ source_stats[proofs[last.args.proof_id].source_hash].verified_count = 1

---------------------------------------------------------------------------
(* get_source_reputation *)

Asked(l, op) == l.op = op /\ l.result = "ok"

\* the formula of the reputation score in exact arithmetic:
\* clamp(floor(50*v/t + min(cs/ta, 30) - 30*r/t + min(t, 10)), 0, 100)
ExactReputation(stats) ==
    LET t == stats.total_proofs
        ta == stats.total_attestations
        d == IF ta > 0 THEN ta ELSE 1
        conf == IF ta = 0 THEN 0
                ELSE IF stats.confidence_sum < 30 * ta THEN stats.confidence_sum
                ELSE 30 * ta
        num == 50 * stats.verified_count * d + conf * t
               - 30 * stats.refuted_count * d
               + (IF t < 10 THEN t ELSE 10) * t * d
        floor == IF num >= 0 THEN num \div (t * d)
                 ELSE 0 - ((0 - num + t * d - 1) \div (t * d))
    IN  IF floor < 0 THEN 0 ELSE IF floor > 100 THEN 100 ELSE floor

\* C11: get_source_reputation answers with a whole number from 0 to 100 for
\* every SourceStats record with non-negative counters, also when
\* verified_count or refuted_count exceeds total_proofs, and with 0 when the
\* record has total_proofs = 0 or the source has no record.
C11_ReputationInRange ==
    Asked(last, "get_source_reputation")
    => /\ last.value \in 0..100
       /\ last.args.source_hash \notin DOMAIN source_stats => last.value = 0
       /\ /\ last.args.source_hash \in DOMAIN source_stats
          /\ source_stats[last.args.source_hash].total_proofs = 0
          => last.value = 0

\* a source with more Verified outcomes than proofs is asked for and scores 100
C11_Witness ==
    /\ Asked(last, "get_source_reputation")
    /\ last.args.source_hash \in DOMAIN source_stats
    /\ LET st == source_stats[last.args.source_hash]
       IN  /\ st.verified_count > st.total_proofs
           /\ st.refuted_count = 0
           /\ st.confidence_sum >= 30 * st.total_attestations
    /\ last.value = 100

\* a source with more refutations than proofs is asked for and scores 0
C11_WitnessRefuted ==
    /\ Asked(last, "get_source_reputation")
    /\ last.args.source_hash \in DOMAIN source_stats
    /\ LET st == source_stats[last.args.source_hash]
       IN  st.refuted_count > st.total_proofs /\ st.verified_count = 0
    /\ last.value = 0

\* C12: for every source with total_proofs > 0, get_source_reputation equals
\* clamp(floor(50*verified_count/total_proofs
\*             + min(confidence_sum/total_attestations, 30)
\*             - 30*refuted_count/total_proofs + min(total_proofs, 10)), 0, 100)
\* computed with exact division, the confidence term being 0 when
\* total_attestations = 0.
C12_ReputationIsExactFormula ==
    /\ Asked(last, "get_source_reputation")
    /\ last.args.source_hash \in DOMAIN source_stats
    /\ source_stats[last.args.source_hash].total_proofs > 0
    => last.value = ExactReputation(source_stats[last.args.source_hash])

\* the five proofs of the scenario are registered, three of them carry one
\* attestation each, and nothing else was called
ScenarioDone ==
    /\ ncalls = 8
    /\ total_proofs = 5
    /\ Cardinality({proofs[id].intel_hash : id \in DOMAIN proofs}) = 5
    /\ \A id \in DOMAIN proofs : proofs[id].source_hash = HashA
    /\ Cardinality({id \in DOMAIN proofs : Len(attestations[id]) = 1}) = 3
    /\ \A id \in DOMAIN proofs :
           \A i \in 1..Len(attestations[id]) : attestations[id][i].confidence = 80

\* C13: after 5 proofs are registered for one source_hash with 5 distinct
\* intel_hash values and one first-time attest call at confidence 80 is made
\* on each of 3 of them, the source's stats are total_proofs = 5,
\* total_attestations = 3, confidence_sum = 240, verified_count = 3,
\* refuted_count = 0, and get_source_reputation returns 65.
C13_ReputationScenario ==
    ScenarioDone
    => /\ HashA \in DOMAIN source_stats
       /\ source_stats[HashA].total_proofs = 5
       /\ source_stats[HashA].total_attestations = 3
       /\ source_stats[HashA].confidence_sum = 240
       /\ source_stats[HashA].verified_count = 3
       /\ source_stats[HashA].refuted_count = 0
       /\ Asked(last, "get_source_reputation") /\ last.args.source_hash = HashA
          => last.value = 65

C13_Witness ==
    /\ ScenarioDone
    /\ Asked(last, "get_source_reputation")
    /\ last.args.source_hash = HashA
    /\ last.value = 65
    /\ last.value > 50

---------------------------------------------------------------------------
(* Rejected calls, registration, immutability, source statistics *)

\* C14: every rejected mutation call leaves all state unchanged: an attest
\* call with an unknown proof_id, a confidence outside 1..100 or a note
\* longer than 200, and a refute_proof call with an unknown proof_id, an
\* unauthorized caller or a reason longer than 500, is rejected and changes
\* no proof record, no attestation collection, no SourceStats entry and no
\* global counter.
C14_RejectedStep ==
    LET a == last'.args
    IN  /\ /\ last'.op = "attest"
           /\ \/ a.proof_id \notin Registered
              \/ a.confidence \notin 1..100
              \/ \E n \in a.note : Len(n) > 200
           => last'.result # "ok" /\ UNCHANGED store
        /\ /\ last'.op = "refute_proof"
           /\ \/ a.proof_id \notin Registered
              \/ ~ \/ a.caller = owner
                   \/ /\ proofs[a.proof_id].attestation_count >= 3
                      /\ proofs[a.proof_id].avg_confidence < 30
              \/ Len(a.reason) > 500
           => last'.result # "ok" /\ UNCHANGED store
        /\ last'.op \in {"attest", "refute_proof"} /\ last'.result # "ok"
           => UNCHANGED store

C14_RejectedCallsChangeNothing == [][C14_RejectedStep]_vars

\* an attest call with a note of 201 characters was rejected on a proof that
\* already carries attestations
C14_Witness ==
    /\ last.op = "attest"
    /\ last.result = "note too long (max 200 chars)"
    /\ last.args.proof_id \in Registered
    /\ proofs[last.args.proof_id].attestation_count > 0

\* a refute_proof call of an account that may not refute was rejected
C14_WitnessRefute ==
    /\ last.op = "refute_proof"
    /\ last.result = "not authorized to refute"
    /\ proofs[last.args.proof_id].attestation_count > 0

\* C15: every successful register_proof creates a proof record with status
\* Pending, attestation_count 0, avg_confidence 0, an empty attestation
\* collection, and height and timestamp equal to the host clock values of
\* that call, and increases the registry's total proof count by exactly 1.
C15_RegisterStep ==
    CommittedCall(last', "register_proof")
    => LET id == last'.args.proof_id
       IN  /\ id \notin Registered
           /\ id \in DOMAIN proofs'
           /\ proofs'[id].status = "Pending"
           /\ proofs'[id].attestation_count = 0
           /\ proofs'[id].avg_confidence = 0
           /\ id \in DOMAIN attestations'
           /\ attestations'[id] = <<>>
           /\ proofs'[id].block_height = block_height
           /\ proofs'[id].timestamp_ns = block_timestamp
           /\ total_proofs' = total_proofs + 1

C15_RegisterCreatesPendingProof == [][C15_RegisterStep]_vars

\* a proof was registered after the host clock moved on
C15_Witness ==
    /\ CommittedCall(last, "register_proof")
    /\ proofs[last.args.proof_id].block_height = InitHeight + 1
    /\ proofs[last.args.proof_id].timestamp_ns = InitTimestamp + 1
    /\ proofs[last.args.proof_id].status = "Pending"
    /\ total_proofs = 2

ProofsOf(s) == {id \in Registered : proofs[id].source_hash = s}

Sources == {proofs[id].source_hash : id \in Registered}

HeightsOf(s) == {proofs[id].block_height : id \in ProofsOf(s)}

\* the statistics of every source with a registered proof count its proofs
\* and span the heights of its registrations
C16_SourceStatsState ==
    \A s \in Sources :
        /\ s \in DOMAIN source_stats
        /\ source_stats[s].total_proofs = Cardinality(ProofsOf(s))
        /\ source_stats[s].first_proof_height \in HeightsOf(s)
        /\ \A h \in HeightsOf(s) : source_stats[s].first_proof_height <= h
        /\ source_stats[s].last_proof_height \in HeightsOf(s)
        /\ \A h \in HeightsOf(s) : h <= source_stats[s].last_proof_height
        /\ source_stats[s].first_proof_height <= source_stats[s].last_proof_height

\* a registration sets last_proof_height, and first_proof_height when it is
\* the first one of its source; nothing else changes either of them
C16_SourceStatsStep ==
    /\ block_height <= block_height'
    /\ \A s \in Sources :
           source_stats'[s].first_proof_height = source_stats[s].first_proof_height
    /\ \A s \in DOMAIN source_stats' :
           IF CommittedCall(last', "register_proof") /\ last'.args.source_hash = s
           THEN /\ source_stats'[s].last_proof_height = block_height
                /\ s \notin Sources => source_stats'[s].first_proof_height = block_height
           ELSE /\ s \in DOMAIN source_stats
                /\ source_stats'[s].last_proof_height = source_stats[s].last_proof_height

\* C16: in every reachable state, for every source s with at least one
\* registered proof, total_proofs of s is the number of registered proofs
\* whose source_hash is s, first_proof_height is the height of the first
\* registration for s and never changes afterwards, last_proof_height is the
\* height of the most recent registration for s, and, the host clock being
\* non-decreasing, first_proof_height <= last_proof_height.
C16_SourceStatsTrackRegistrations ==
    [][C16_SourceStatsStep]_vars /\ []C16_SourceStatsState

\* a source has two proofs registered at different heights
C16_Witness ==
    \E s \in Sources :
        /\ Cardinality(ProofsOf(s)) = 2
        /\ source_stats[s].total_proofs = 2
        /\ source_stats[s].first_proof_height = InitHeight
        /\ source_stats[s].last_proof_height = InitHeight + 1

ImmutableFields ==
    {"proof_id", "commitment", "proof_type", "source_hash", "intel_hash",
     "public_inputs_hash", "block_height", "timestamp_ns", "metadata"}

AggregateFields == {"status", "attestation_count", "avg_confidence"}

\* C17: once registered, a proof is never removed, and its proof_id,
\* commitment, proof_type, source_hash, intel_hash, public_inputs_hash,
\* height, timestamp and metadata never change under later register_proof,
\* attest and refute_proof calls; its status, attestation_count and
\* avg_confidence change only in a successful attest or refute_proof call on
\* that same proof_id.
C17_ProofStep ==
    \A id \in Registered :
        /\ id \in DOMAIN proofs'
        /\ \A f \in ImmutableFields : proofs'[id][f] = proofs[id][f]
        /\ (\E f \in AggregateFields : proofs'[id][f] # proofs[id][f])
           => /\ CommittedCall(last', "attest") \/ CommittedCall(last', "refute_proof")
              /\ last'.args.proof_id = id

C17_ProofsAreImmutable == [][C17_ProofStep]_vars

\* a proof registered at the first height is still there, with its fields,
\* after it was attested and a second proof was registered later and refuted
C17_Witness ==
    /\ CommittedCall(last, "refute_proof")
    /\ last.args.proof_id = P2
    /\ P1 \in Registered
    /\ proofs[P1].proof_id = P1
    /\ proofs[P1].proof_type = "LocationProximity"
    /\ proofs[P1].block_height = InitHeight
    /\ proofs[P1].status = "Verified"
    /\ proofs[P2].block_height = InitHeight + 1
    /\ proofs[P2].status = "Refuted"

\* the caller of the call already has an entry in the collection of the proof
HasEntry(id, account) ==
    \E i \in 1..Len(attestations[id]) : attestations[id][i].attestor = account

\* C18: an attest call that replaces an existing entry of the same attestor
\* leaves the source's total_attestations and confidence_sum unchanged; a
\* first-time attest increases total_attestations by exactly 1 and
\* confidence_sum by exactly the submitted confidence.  Hence confidence_sum
\* adds up the first confidence of every (proof, attestor) pair, not the
\* live confidences.
C18_AttestStep ==
    CommittedCall(last', "attest")
    => LET a == last'.args
           src == proofs[a.proof_id].source_hash
       IN  /\ src \in DOMAIN source_stats
           /\ IF HasEntry(a.proof_id, a.caller)
              THEN /\ source_stats'[src].total_attestations
                        = source_stats[src].total_attestations
                   /\ source_stats'[src].confidence_sum
                        = source_stats[src].confidence_sum
              ELSE /\ source_stats'[src].total_attestations
                        = source_stats[src].total_attestations + 1
                   /\ source_stats'[src].confidence_sum
                        = source_stats[src].confidence_sum + a.confidence

C18_AttestCountsFirstSubmission == [][C18_AttestStep]_vars

\* the only attestor of the only proof first submitted 29 and then 70: the
\* source's confidence_sum is still 29 while the live confidence is 70
C18_Witness ==
    /\ CommittedCall(last, "attest")
    /\ last.found
    /\ last.args.confidence = 70
    /\ Registered = {P1}
    /\ Len(attestations[P1]) = 1
    /\ LiveSum(attestations[P1]) = 70
    /\ source_stats[proofs[P1].source_hash].total_attestations = 1
    /\ source_stats[proofs[P1].source_hash].confidence_sum = 29

\* a second attestor's first submission was counted
C18_WitnessFirst ==
    /\ CommittedCall(last, "attest")
    /\ ~last.found
    /\ Registered = {P1}
    /\ source_stats[proofs[P1].source_hash].total_attestations = 2
    /\ source_stats[proofs[P1].source_hash].confidence_sum = 99

---------------------------------------------------------------------------
(* verified_count, and attest on a Refuted proof *)

\* C19: every successful attest call after which the proof is Verified
\* increases the source's verified_count by exactly 1, also when the proof
\* was Verified before the call and when the call only replaces an existing
\* attestation; an attest call that leaves the proof Contested leaves
\* verified_count unchanged; no operation ever decreases verified_count.
C19_VerifiedCountStep ==
    /\ CommittedCall(last', "attest")
       => LET id == last'.args.proof_id
              src == proofs[id].source_hash
          IN  /\ src \in DOMAIN source_stats
              /\ proofs'[id].status \in {"Verified", "Contested"}
              /\ proofs'[id].status = "Verified"
                 => source_stats'[src].verified_count
                      = source_stats[src].verified_count + 1
              /\ proofs'[id].status = "Contested"
                 => source_stats'[src].verified_count
                      = source_stats[src].verified_count
    /\ \A s \in DOMAIN source_stats :
           /\ s \in DOMAIN source_stats'
           /\ source_stats'[s].verified_count >= source_stats[s].verified_count

C19_WitnessContested ==
    /\ CommittedCall(last, "attest")
    /\ ncalls = 3
    /\ Registered = {P1}
    /\ proofs[P1].status = "Contested"
    /\ source_stats[proofs[P1].source_hash].verified_count = 1

\* C20: Refuted is not preserved by attest: a successful attest call on a
\* proof whose status is Refuted sets its status to Verified (new
\* avg_confidence >= 70) or Contested (new avg_confidence < 70) and does not
\* decrease the source's refuted_count.
C20_AttestOnRefutedStep ==
    /\ CommittedCall(last', "attest")
    /\ proofs[last'.args.proof_id].status = "Refuted"
    => LET id == last'.args.proof_id
           src == proofs[id].source_hash
       IN  /\ proofs'[id].status =
                  IF proofs'[id].avg_confidence >= 70 THEN "Verified" ELSE "Contested"
           /\ source_stats'[src].refuted_count >= source_stats[src].refuted_count

C20_AttestOverridesRefuted == [][C20_AttestOnRefutedStep]_vars

\* register, refute, attest at 70: the refuted proof is Verified again and
\* its source still counts one refutation
C20_Witness ==
    /\ CommittedCall(last, "attest")
    /\ ncalls = 3
    /\ Registered = {P1}
    /\ proofs[P1].attestation_count = 1
    /\ proofs[P1].avg_confidence >= 70
    /\ proofs[P1].status = "Verified"
    /\ source_stats[proofs[P1].source_hash].refuted_count = 1

\* register, refute, attest at 29: the refuted proof is Contested
C20_WitnessContested ==
    /\ CommittedCall(last, "attest")
    /\ ncalls = 3
    /\ Registered = {P1}
    /\ proofs[P1].attestation_count = 1
    /\ proofs[P1].avg_confidence < 70
    /\ proofs[P1].status = "Contested"
    /\ source_stats[proofs[P1].source_hash].refuted_count = 1

---------------------------------------------------------------------------
(* Refuted, attestor entries, views *)

\* C21: a proof's status becomes Refuted only in a step that is a
\* successful refute_proof call on that proof; register_proof and attest
\* never set any proof's status to Refuted.
C21_RefutedStep ==
    /\ \A id \in DOMAIN proofs' :
           /\ proofs'[id].status = "Refuted"
           /\ id \in Registered => proofs[id].status # "Refuted"
           => /\ CommittedCall(last', "refute_proof")
              /\ last'.args.proof_id = id
    /\ CommittedCall(last', "register_proof") \/ CommittedCall(last', "attest")
       => proofs'[last'.args.proof_id].status # "Refuted"

C21_RefutedOnlyByRefute == [][C21_RefutedStep]_vars

\* a Contested proof was refuted by the owner
C21_Witness ==
    /\ CommittedCall(last, "refute_proof")
    /\ last.args.caller = OwnerAccount
    /\ proofs[last.args.proof_id].status = "Refuted"
    /\ proofs[last.args.proof_id].attestation_count = 2
    /\ proofs[last.args.proof_id].avg_confidence < 70

\* C22: after an attest call by attestor A on proof p, A's entry in p's
\* collection carries the confidence, note and height of that call, it stays
\* at the position where A's first attestation was appended, and the
\* entries of all other attestors (content and relative order) are
\* unchanged by A's later calls.
C22_EntryStep ==
    CommittedCall(last', "attest")
    => LET a == last'.args
           old == attestations[a.proof_id]
           new == attestations'[a.proof_id]
           entry == [attestor |-> a.caller, confidence |-> a.confidence,
                     block_height |-> block_height, note |-> a.note]
       IN  /\ IF HasEntry(a.proof_id, a.caller)
              THEN /\ Len(new) = Len(old)
                   /\ \A i \in 1..Len(old) :
                          new[i] = IF old[i].attestor = a.caller THEN entry ELSE old[i]
              ELSE new = Append(old, entry)
           /\ \A id \in DOMAIN attestations \ {a.proof_id} :
                  attestations'[id] = attestations[id]

C22_LastAttestationWinsInPlace == [][C22_EntryStep]_vars

\* the first of three attestors replaced a confidence of 29 without a note,
\* submitted at the first height, by 70 with a note at the next height: the
\* entry is still the first one and the two others are as they were
C22_Witness ==
    /\ CommittedCall(last, "attest")
    /\ last.found
    /\ Registered = {P1}
    /\ Len(attestations[P1]) = 3
    /\ attestations[P1][1] = [attestor |-> "alice.near", confidence |-> 70,
                              block_height |-> InitHeight + 1, note |-> Some(ShortNote)]
    /\ attestations[P1][2].block_height = InitHeight
    /\ attestations[P1][3].block_height = InitHeight
    /\ last.args.caller = "alice.near"
    /\ source_stats[proofs[P1].source_hash].confidence_sum = 29 + 70 + 70

\* C23: the source-stats query returns a zero-valued SourceStats (all
\* counters and both heights 0) for a source_hash that no registered proof
\* has ever referenced, and the stored stats for every referenced source.
C23_SourceStatsQuery ==
    Asked(last, "get_source_stats")
    => LET h == last.args.source_hash
       IN  IF h \in Sources
           THEN h \in DOMAIN source_stats /\ last.value = Some(source_stats[h])
           ELSE last.value = Some(DefaultStats)

ProofIdsOf(records) == [i \in 1..Len(records) |-> records[i].proof_id]

\* what get_intel_proofs answers in the current state
C24_IntelProofsState ==
    /\ \A h \in ViewHashes :
           LET answer == IntelProofs(intel_proofs, proofs, h)
               linked == {id \in Registered : proofs[id].intel_hash = h}
           IN  /\ Len(answer) = Cardinality(linked)
               /\ {answer[i].proof_id : i \in 1..Len(answer)} = linked
               /\ \A i \in 1..Len(answer) : answer[i] = proofs[answer[i].proof_id]
               /\ \A i, j \in 1..Len(answer) :
                      i < j => answer[i].block_height <= answer[j].block_height
               /\ linked = {} => answer = <<>>
    /\ Asked(last, "get_intel_proofs")
       => last.value = IntelProofs(intel_proofs, proofs, last.args.intel_hash)

\* a registration puts its proof behind the proofs that were linked to the
\* intel hash before it; no other step changes which proofs are answered
C24_IntelProofsStep ==
    \A h \in ViewHashes :
        LET before == ProofIdsOf(IntelProofs(intel_proofs, proofs, h))
            after == ProofIdsOf(IntelProofs(intel_proofs', proofs', h))
        IN  IF CommittedCall(last', "register_proof") /\ last'.args.intel_hash = h
            THEN after = Append(before, last'.args.proof_id)
            ELSE after = before

\* C24: in every reachable state, for every intel_hash h, get_intel_proofs(h)
\* returns exactly the registered proofs whose intel_hash is h, each exactly
\* once, in the order they were registered, with their current status,
\* attestation_count and avg_confidence; it returns the empty list for an h
\* that no proof references.
C24_IntelProofsListsRegistrations ==
    [][C24_IntelProofsStep]_vars /\ []C24_IntelProofsState

\* two proofs of one intel hash are answered, one Verified and one Refuted
C24_Witness ==
    /\ Asked(last, "get_intel_proofs")
    /\ Len(last.value) = 2
    /\ last.value[1].proof_id # last.value[2].proof_id
    /\ {last.value[1].status, last.value[2].status} = {"Verified", "Refuted"}
    /\ \E i \in 1..2 : last.value[i].attestation_count = 1

\* nothing is answered for an intel hash without a proof while another has one
C24_WitnessEmpty ==
    /\ Asked(last, "get_intel_proofs")
    /\ last.value = <<>>
    /\ Registered # {}

\* the two strings have the same characters at the same places
SameCharacters(s, t) == Len(s) = Len(t) /\ \A i \in 1..Len(s) : s[i] = t[i]

C25_VerifyState ==
    Asked(last, "verify_commitment")
    => LET id == last.args.proof_id
       IN  /\ last.value \in BOOLEAN
           /\ last.value
              <=> /\ id \in Registered
                  /\ SameCharacters(proofs[id].commitment, last.args.computed_commitment)
           /\ id \notin Registered => last.value = FALSE

C25_VerifyStep ==
    /\ last'.op = "verify_commitment" => UNCHANGED store
    /\ CommittedCall(last', "attest") \/ CommittedCall(last', "refute_proof")
       => \A id \in ProofIds, c \in ViewCandidates :
              CommitmentMatches(proofs', id, c) = CommitmentMatches(proofs, id, c)

\* C25: verify_commitment(proof_id, candidate) returns true if and only if a
\* proof with that proof_id is registered and its stored commitment equals
\* candidate character for character; it returns false for an unregistered
\* proof_id; its result is unaffected by attest and refute_proof calls and
\* it changes no state.
C25_VerifyCommitmentIsExactMatch ==
    [][C25_VerifyStep]_vars /\ []C25_VerifyState

\* the commitment of a proof that was attested and refuted is confirmed
C25_Witness ==
    /\ Asked(last, "verify_commitment")
    /\ last.value = TRUE
    /\ last.args.proof_id \in Registered
    /\ proofs[last.args.proof_id].status = "Refuted"
    /\ proofs[last.args.proof_id].attestation_count > 0

\* a candidate that differs from the stored commitment only in the case of
\* its letters is turned down
C25_WitnessCase ==
    /\ Asked(last, "verify_commitment")
    /\ last.value = FALSE
    /\ last.args.proof_id \in Registered
    /\ last.args.computed_commitment = UpperA
    /\ proofs[last.args.proof_id].commitment = HashA

\* C26: get_recent_proofs(limit) returns min(limit, number of registered
\* proofs) proofs, ordered by non-increasing registration height, and every
\* proof it omits has a height less than or equal to the height of every
\* proof it returns.
C26_RecentProofs ==
    Asked(last, "get_recent_proofs")
    => LET answer == last.value
           returned == {answer[i].proof_id : i \in 1..Len(answer)}
           n == Cardinality(Registered)
       IN  /\ Len(answer) = IF last.args.limit < n THEN last.args.limit ELSE n
           /\ Cardinality(returned) = Len(answer)
           /\ returned \subseteq Registered
           /\ \A i \in 1..Len(answer) : answer[i] = proofs[answer[i].proof_id]
           /\ \A i, j \in 1..Len(answer) :
                  i < j => answer[i].block_height >= answer[j].block_height
           /\ \A id \in Registered \ returned :
                  \A i \in 1..Len(answer) :
                      proofs[id].block_height <= answer[i].block_height

\* of two proofs registered at different heights the later one is returned
\* for limit 1
C26_Witness ==
    /\ Asked(last, "get_recent_proofs")
    /\ last.args.limit = 1
    /\ Cardinality(Registered) = 2
    /\ Len(last.value) = 1
    /\ last.value[1].block_height = InitHeight + 1
    /\ \E id \in Registered : proofs[id].block_height = InitHeight

\* both proofs are returned for a limit above their number, the later first
C26_WitnessAll ==
    /\ Asked(last, "get_recent_proofs")
    /\ last.args.limit = 3
    /\ Len(last.value) = 2
    /\ last.value[1].block_height = InitHeight + 1
    /\ last.value[2].block_height = InitHeight

---------------------------------------------------------------------------
(* The data registry on its own *)

\* calls of set_data and delete_data in one behaviour
DataCalls == 5

NextData ==
    \/ AdvanceBlock
    \/ \E a \in Accounts, p \in DataPayloads :
           SetData(a, p.cid, p.data_hash, p.public_key) /\ ncalls' <= DataCalls
    \/ \E a \in Accounts : DeleteData(a) /\ ncalls' <= DataCalls
    \/ \E a \in Accounts : GetData(a)
    \/ \E a \in Accounts : HasData(a)
    \/ GetTotalUsers
    \/ \E a \in Accounts : GetVersion(a)

SpecData == Init /\ [][NextData]_vars

\* C27: an account's first set_data creates its entry with version 1; a later
\* set_data by the account, its entry still there, adds exactly 1 to the version;
\* either way cid, data_hash and public_key become the call's arguments; and
\* set_data and delete_data leave every other account's entry as it was.
C27_SetDataVersionsOwnEntry ==
    [][LET before == data_registry.entries
           after == data_registry'.entries
           caller == last'.args.caller
       IN  /\ last'.op = "set_data"
              => /\ caller \in DOMAIN after
                 /\ after[caller].version =
                        IF caller \in DOMAIN before THEN before[caller].version + 1 ELSE 1
                 /\ after[caller].cid = last'.args.payload.cid
                 /\ after[caller].data_hash = last'.args.payload.data_hash
                 /\ after[caller].public_key = last'.args.payload.public_key
           /\ last'.op \in {"set_data", "delete_data"}
              => /\ DOMAIN after \ {caller} = DOMAIN before \ {caller}
                 /\ \A other \in DOMAIN before \ {caller} : after[other] = before[other]]_vars

\* an account at its third version, written with new values, beside another
\* account's entry
C27_Witness ==
    /\ last.op = "set_data"
    /\ last.found
    /\ data_registry.entries[last.args.caller].version = 3
    /\ data_registry.entries[last.args.caller].cid = "QmSecond"
    /\ \E other \in DOMAIN data_registry.entries : other # last.args.caller

\* C28: total_users is the number of accounts that have an entry; delete_data
\* returns true exactly when the caller had an entry, and after it has_data is
\* false and get_version is 0 for the caller.
C28_TotalUsersCountsEntries ==
    /\ [](data_registry.total_users = Cardinality(DOMAIN data_registry.entries))
    /\ [][last'.op = "delete_data"
          => /\ last'.value = (last'.args.caller \in DOMAIN data_registry.entries)
             /\ ~HasDataOf(data_registry'.entries, last'.args.caller)
             /\ VersionOf(data_registry'.entries, last'.args.caller) = 0]_vars

\* an entry deleted while another account keeps one that was updated
C28_Witness ==
    /\ last.op = "delete_data"
    /\ last.value
    /\ data_registry.total_users = 1
    /\ \E other \in DOMAIN data_registry.entries :
           data_registry.entries[other].version = 2

---------------------------------------------------------------------------
(* The HUMINT feed on its own *)

\* committed mutating calls of the feed in one behaviour
FeedCalls == 4

Subscribers == {"alice.near", "bob.near"}

DayPass == Package("day", Rep("n", 3), 100, 1, "one day")
TwoDayPass == Package("two-days", Rep("n", 8), 180, 2, "two days")
FeedPackages == <<DayPass, TwoDayPass>>

Post1 == "post-1"
Post2 == "post-2"
FeedPosts == {Post1, Post2}
\* a premium post and a free post of the source HashA
FeedAnchors == {[id |-> Post1, is_premium |-> TRUE], [id |-> Post2, is_premium |-> FALSE]}

FeedTokens == {TokenId(1), TokenId(2)}

NextFeed ==
    \/ AdvanceDay
    \/ \E h \in {HashA, HashB} :
           /\ RegisterSource(h, "x25519-key", FeedPackages)
           /\ last'.result = "ok" /\ ncalls' <= FeedCalls
    \/ \E post \in FeedAnchors :
           /\ AnchorPost(post.id, HashA, HashB, "bafy-cid", post.is_premium, "2026-02", <<>>)
           /\ last'.result = "ok" /\ ncalls' <= FeedCalls
    \/ \E caller \in Accounts, r \in Subscribers, h \in {HashA, HashB} :
           /\ MintAccessPass(caller, r, h, "day", 100)
           /\ last'.result = "ok" /\ ncalls' <= FeedCalls
    \/ \E caller \in Accounts, id \in FeedPosts, a \in Subscribers :
           /\ AddExclusion(caller, id, a)
           /\ last'.result = "ok" /\ ncalls' <= FeedCalls
    \/ \E caller \in Accounts, id \in FeedPosts, a \in Subscribers :
           /\ RemoveExclusion(caller, id, a)
           /\ last'.result = "ok" /\ ncalls' <= FeedCalls
    \/ \E sender \in Subscribers, deposit \in {0, 1}, r \in Subscribers, t \in FeedTokens :
           /\ NftTransfer(sender, deposit, r, t)
           /\ last'.result = "ok" /\ ncalls' <= FeedCalls
    \/ \E a \in Subscribers, id \in FeedPosts : HasPostAccess(a, id)

SpecFeed == Init /\ [][NextFeed]_vars

\* the account is the owner of the token in the ledger
OwnsToken(f, account_id, token_id) ==
    token_id \in DOMAIN f.tokens_by_id /\ f.tokens_by_id[token_id].owner_id = account_id

\* a pass of the source that has not run out: lifetime, or expiring now or later
LivePass(f, token_id, source_hash, now) ==
    /\ token_id \in DOMAIN f.access_pass_data
    /\ f.access_pass_data[token_id].source_hash = source_hash
    /\ \/ f.access_pass_data[token_id].expires_at = TimeZero
       \/ ~TimeLess(f.access_pass_data[token_id].expires_at, now)

\* the account owns a live pass of the source, other than the token named
OwnsLivePass(f, account_id, source_hash, now, except) ==
    \E token_id \in DOMAIN f.tokens_by_id \ except :
        OwnsToken(f, account_id, token_id) /\ LivePass(f, token_id, source_hash, now)

Excluded(f, post_id, account_id) ==
    post_id \in DOMAIN f.post_exclusions /\ account_id \in f.post_exclusions[post_id]

\* C29: has_post_access is false for an unknown post, true for a post that is
\* not premium whoever asks, and for a premium post true exactly when the
\* account is not excluded from the post and owns a pass of the post's source
\* that has not expired; after an nft_transfer to another account the sender
\* has access to the pass's source only through other passes, and the
\* receiver has it while the pass is live.
C29_PostAccessFollowsThePass ==
    /\ [](last.op = "has_post_access"
          => LET f == humint_feed
                 a == last.args.account_id
                 p == last.args.post_id
             IN  last.value =
                     IF p \notin DOMAIN f.posts THEN FALSE
                     ELSE IF ~f.posts[p].is_premium THEN TRUE
                     ELSE /\ ~Excluded(f, p, a)
                          /\ OwnsLivePass(f, a, f.posts[p].source_hash, Now, {}))
    /\ [][(last'.op = "nft_transfer" /\ last'.args.sender_id # last'.args.receiver_id)
          => LET g == humint_feed'
                 t == last'.args.token_id
                 src == g.access_pass_data[t].source_hash
                 now == Timestamp(elapsed_days', block_timestamp')
             IN  /\ OwnsToken(g, last'.args.receiver_id, t)
                 /\ ~OwnsToken(g, last'.args.sender_id, t)
                 /\ LivePass(g, t, src, now)
                    => HasAccessOf(g, last'.args.receiver_id, src, now)
                 /\ HasAccessOf(g, last'.args.sender_id, src, now)
                    <=> OwnsLivePass(g, last'.args.sender_id, src, now, {t})]_vars

\* the holder of a transferred pass is answered yes for a premium post
C29_Witness ==
    /\ last.op = "has_post_access"
    /\ last.value
    /\ humint_feed.posts[last.args.post_id].is_premium
    /\ \E sender \in DOMAIN humint_feed.tokens_per_owner :
           /\ sender # last.args.account_id
           /\ humint_feed.tokens_per_owner[sender] = {}

\* the owner of a pass that ran out is answered no
C29_WitnessExpired ==
    /\ last.op = "has_post_access"
    /\ ~last.value
    /\ last.args.post_id \in DOMAIN humint_feed.posts
    /\ ~Excluded(humint_feed, last.args.post_id, last.args.account_id)
    /\ \E t \in DOMAIN humint_feed.tokens_by_id :
           /\ OwnsToken(humint_feed, last.args.account_id, t)
           /\ humint_feed.access_pass_data[t].source_hash =
                  humint_feed.posts[last.args.post_id].source_hash

\* an excluded account is answered yes for a free post
C29_WitnessExcluded ==
    /\ last.op = "has_post_access"
    /\ last.value
    /\ Excluded(humint_feed, last.args.post_id, last.args.account_id)

\* an excluded account is answered no for a premium post of a source it holds
\* a live pass of
C29_WitnessRevoked ==
    /\ last.op = "has_post_access"
    /\ ~last.value
    /\ Excluded(humint_feed, last.args.post_id, last.args.account_id)
    /\ OwnsLivePass(humint_feed, last.args.account_id,
                    humint_feed.posts[last.args.post_id].source_hash, Now, {})

\* the sender of a pass keeps access through a second pass
C29_WitnessSecondPass ==
    /\ last.op = "nft_transfer"
    /\ last.result = "ok"
    /\ last.args.sender_id # last.args.receiver_id
    /\ HasAccessOf(humint_feed, last.args.sender_id,
                   humint_feed.access_pass_data[last.args.token_id].source_hash, Now)

---------------------------------------------------------------------------
(* The content gate on its own *)

\* committed admin messages of the gate in one behaviour
GateCalls == 3

GateLists == {"list1", "list2"}

\* [0u8; 32] of the unit tests, and a second key
KeyZero == Rep(0, 32)
KeyOne == Rep(1, 32)

\* signatures of 64 bytes and of 63
GateSignatures == {Rep(0, 64), Rep(0, 63)}

\* b"Hello, World!" of the unit test decrypt_works, as its length in bytes
Hello == Rep("x", 13)

GateContents == {Sealed(KeyZero, Hello), Sealed(KeyOne, Hello), Garbage(27), Garbage(40)}

\* "result":"dHJ1ZQ=="  (base64 of true)
BodyTrueBase64 == ResultKey \o <<":", "\"">> \o TrueBase64 \o <<"=", "=", "\"">>
\* "result":true
BodyTrueText == ResultKey \o <<":">> \o TrueText
\* "result":"ZmFsc2U="  (base64 of false)
BodyFalse == ResultKey \o <<":", "\"", "Z", "m", "F", "s", "c", "2", "U", "=", "\"">>
\* "error":"x"
BodyError == <<"\"", "e", "r", "r", "o", "r", "\"", ":", "\"", "x", "\"">>

RpcResponses ==
    [status_code : {200, 500}, body : {BodyTrueBase64, BodyTrueText, BodyFalse, BodyError}]

IpfsResponses == [status_code : {200, 404}, body : {Sealed(KeyZero, Hello), Garbage(40)}]

NextGate ==
    \/ \E caller \in GateAccounts, l \in GateLists, k \in {KeyZero, KeyOne} :
           RegisterList(caller, l, k) /\ ncalls' <= GateCalls
    \/ \E caller \in GateAccounts :
           SetNearRpc(caller, "https://rpc.testnet.near.org") /\ ncalls' <= GateCalls
    \/ \E caller \in GateAccounts :
           SetNftContract(caller, "source-lists.testnet") /\ ncalls' <= GateCalls
    \/ \E caller \in GateAccounts, a \in GateAccounts :
           TransferAdmin(caller, a) /\ ncalls' <= GateCalls
    \/ \E l \in GateLists : HasList(l)
    \/ GetAdmin
    \/ \E l \in GateLists, sig \in GateSignatures, data \in GateContents,
          rpc \in RpcResponses :
           DecryptForHolder(l, "alice.near", sig, <<>>, data, rpc)
    \/ \E l \in GateLists, sig \in GateSignatures, rpc \in RpcResponses,
          ipfs \in IpfsResponses :
           FetchAndDecrypt(l, "alice.near", sig, <<>>, "bafy-cid", rpc, ipfs)

SpecGate == Init /\ [][NextGate]_vars

DecryptMessages == {"decrypt_for_holder", "fetch_and_decrypt"}

\* C30: decrypt_for_holder and fetch_and_decrypt return content only for a
\* signature of 64 bytes, an access check that answered true and a list with
\* a key; they return NoAccess when the access check answers false, and
\* ListNotFound when the signature and the access check pass and the list has
\* no key; and they leave the stored keys as they were.
C30_GateReleasesOnlyToHolders ==
    /\ [](last.op \in DecryptMessages
          => /\ last.result = "ok"
                => /\ Len(last.args.signature) = 64
                   /\ last.access = "true"
                   /\ last.args.list_id \in DOMAIN content_gate.list_keys
             /\ last.access = "false" => last.result = "NoAccess"
             /\ (/\ Len(last.args.signature) = 64
                 /\ last.access = "true"
                 /\ last.args.list_id \notin DOMAIN content_gate.list_keys)
                => last.result = "ListNotFound")
    /\ [][last'.op \in DecryptMessages
          => content_gate'.list_keys = content_gate.list_keys]_vars

\* what holds of the two messages: the release conditions, NoAccess, the
\* stored keys, and ListNotFound once the content is at hand
C30_ReleaseNeedsAccessAndKey ==
    /\ [](last.op \in DecryptMessages
          => /\ last.result = "ok"
                => /\ Len(last.args.signature) = 64
                   /\ last.access = "true"
                   /\ last.args.list_id \in DOMAIN content_gate.list_keys
             /\ last.access = "false" => last.result = "NoAccess"
             /\ (/\ Len(last.args.signature) = 64
                 /\ last.access = "true"
                 /\ last.fetched # "HttpError"
                 /\ last.args.list_id \notin DOMAIN content_gate.list_keys)
                => last.result = "ListNotFound")
    /\ [][last'.op \in DecryptMessages
          => content_gate'.list_keys = content_gate.list_keys]_vars

\* content released from a fetch for a list with a key
C30_WitnessReleased ==
    /\ last.op = "fetch_and_decrypt"
    /\ last.result = "ok"
    /\ last.value = Hello

\* a fetch that fails for a list without a key
C30_WitnessFetchFails ==
    /\ last.op = "fetch_and_decrypt"
    /\ last.access = "true"
    /\ last.result = "HttpError"
    /\ last.args.list_id \notin DOMAIN content_gate.list_keys

\* the registered proofs of a source that have the status now
ProofsWithStatus(s, status) == {id \in ProofsOf(s) : proofs[id].status = status}

\* C31: in every reachable state the verified_count of every source is the
\* number of its registered proofs whose status is Verified.
C31_VerifiedCountIsVerifiedProofs ==
    \A s \in Sources :
        /\ s \in DOMAIN source_stats
        /\ source_stats[s].verified_count = Cardinality(ProofsWithStatus(s, "Verified"))

\* C32: in every reachable state the refuted_count of every source is the
\* number of its registered proofs whose status is Refuted, and so is at most
\* the source's total_proofs.
C32_RefutedCountIsRefutedProofs ==
    \A s \in Sources :
        /\ s \in DOMAIN source_stats
        /\ source_stats[s].refuted_count = Cardinality(ProofsWithStatus(s, "Refuted"))
        /\ source_stats[s].refuted_count <= source_stats[s].total_proofs

\* the weaker half of C32 on its own: refuted_count is at most total_proofs
C32_RefutedAtMostTotal ==
    \A s \in Sources : source_stats[s].refuted_count <= source_stats[s].total_proofs

\* C33: in every reachable state the status of every registered proof agrees
\* with its aggregate: Pending only with no attestation, Verified only with
\* an attestation and an average of at least 70, Contested only with an
\* attestation and an average below 70; and the average is in 1..100 once
\* there is an attestation.
C33_StatusAgreesWithAggregate ==
    \A id \in Registered :
        LET p == proofs[id]
        IN  /\ p.status = "Pending" => p.attestation_count = 0
            /\ p.status = "Verified" => p.attestation_count > 0 /\ p.avg_confidence >= 70
            /\ p.status = "Contested" => p.attestation_count > 0 /\ p.avg_confidence < 70
            /\ p.attestation_count > 0 => p.avg_confidence \in 1..100

\* a Verified proof at an average of exactly 70 beside a Contested proof
C33_Witness ==
    /\ \E id \in Registered :
           proofs[id].status = "Verified" /\ proofs[id].avg_confidence = 70
    /\ \E id \in Registered : proofs[id].status = "Contested"

\* a proof refuted after it was attested keeps its count and average
C33_WitnessRefuted ==
    \E id \in Registered : proofs[id].status = "Refuted" /\ proofs[id].attestation_count > 0

\* the sum of attestation_count over a set of registered proofs
RECURSIVE CountSum(_)
CountSum(ids) ==
    IF ids = {} THEN 0
    ELSE LET id == CHOOSE x \in ids : TRUE
         IN  proofs[id].attestation_count + CountSum(ids \ {id})

\* the (proof, attestor) pairs with an entry in the attestation collections
AttestedPairs(ids) ==
    {pair \in ids \X Accounts : HasEntry(pair[1], pair[2])}

\* C34: in every reachable state the total_attestations of every source is the
\* sum of attestation_count over its registered proofs, which is the number
\* of distinct (proof, attestor) pairs that attested on them.
C34_SourceAttestationsCountPairs ==
    \A s \in Sources :
        /\ source_stats[s].total_attestations = CountSum(ProofsOf(s))
        /\ CountSum(ProofsOf(s)) = Cardinality(AttestedPairs(ProofsOf(s)))

\* a source with two proofs, both attested, one of them by an attestor who
\* attested it again
C34_Witness ==
    /\ CommittedCall(last, "attest")
    /\ last.found
    /\ \E s \in Sources :
           /\ Cardinality(ProofsOf(s)) = 2
           /\ source_stats[s].total_attestations >= 2
           /\ \A id \in ProofsOf(s) : proofs[id].attestation_count > 0

\* the sum of total_proofs over a set of sources
RECURSIVE SourceProofsSum(_)
SourceProofsSum(sources) ==
    IF sources = {} THEN 0
    ELSE LET s == CHOOSE x \in sources : TRUE
         IN  source_stats[s].total_proofs + SourceProofsSum(sources \ {s})

\* C35: in every reachable state total_proofs is the number of registered
\* proofs and the sum of total_proofs over all sources, total_attestations is
\* the sum of attestation_count over all registered proofs, and get_stats
\* answers with these two counters.
C35_GlobalCountersMatch ==
    /\ total_proofs = Cardinality(Registered)
    /\ total_proofs = SourceProofsSum(DOMAIN source_stats)
    /\ total_attestations = CountSum(Registered)
    /\ Asked(last, "get_stats")
       => last.value = <<Cardinality(Registered), CountSum(Registered)>>

\* get_stats answers (2, 2) for two proofs of one source, one of them attested
\* twice
C35_Witness ==
    /\ Asked(last, "get_stats")
    /\ last.value = <<2, 2>>
    /\ Cardinality(Sources) = 1
    /\ \E id \in Registered : proofs[id].attestation_count = 2

\* confidences at both ends of 1..100 and inside it
ValidConfidences == {1, 29, 70, 100}

\* no note, a short note, and a note of exactly 200 characters
ValidNotes == {None, Some(Rep("n", 1)), Some(Rep("n", 200))}

\* C36: in every reachable state an attest call on a registered proof with a
\* confidence in 1..100 and a note of at most 200 characters succeeds, whoever
\* calls and whatever the proof's status: the proof has an attestation
\* collection, and the collection the average is taken over has at least one
\* entry.
C36_ValidAttestSucceeds ==
    \A id \in Registered, caller \in Accounts, confidence \in ValidConfidences,
       note \in ValidNotes :
        /\ AttestResult(proofs, attestations, caller, id, confidence, note) = "ok"
        /\ id \in DOMAIN attestations
        /\ Len(ReplaceOrPush(attestations[id],
                             [attestor |-> caller, confidence |-> confidence,
                              block_height |-> block_height, note |-> note])) >= 1

\* an attest call committed on a proof that had been refuted (the only proof
\* of a source with a refutation), beside a proof that has no attestation yet
C36_Witness ==
    /\ CommittedCall(last, "attest")
    /\ ProofsOf(proofs[last.args.proof_id].source_hash) = {last.args.proof_id}
    /\ source_stats[proofs[last.args.proof_id].source_hash].refuted_count > 0
    /\ \E id \in Registered : proofs[id].status = "Pending"

\* an attested proof is not Pending
AttestedNotPending ==
    \A id \in Registered : proofs[id].attestation_count >= 1 => proofs[id].status # "Pending"

\* no step lowers a proof's attestation_count, and no step leaves an attested
\* proof Pending
CountGrowsStep ==
    \A id \in Registered :
        /\ id \in DOMAIN proofs'
        /\ proofs'[id].attestation_count >= proofs[id].attestation_count
        /\ proofs[id].attestation_count >= 1 => proofs'[id].status # "Pending"

\* C37: for every proof, attestation_count never decreases over any behaviour,
\* and once a proof has received its first attestation its status is never
\* Pending again.
C37_CountGrowsAndPendingIsLeft == []AttestedNotPending /\ [][CountGrowsStep]_vars

\* a proof attested by two accounts, the second of which has just repeated its
\* attestation, after a refutation of a proof of the same source
C37_Witness ==
    /\ CommittedCall(last, "attest")
    /\ last.found
    /\ proofs[last.args.proof_id].attestation_count >= 2
    /\ source_stats[proofs[last.args.proof_id].source_hash].refuted_count > 0

\* what a committed attest call on the proof leaves alone
AttestFrame(id) ==
    /\ DOMAIN proofs' = DOMAIN proofs
    /\ \A other \in DOMAIN proofs \ {id} : proofs'[other] = proofs[other]
    /\ DOMAIN attestations' = DOMAIN attestations
    /\ \A other \in DOMAIN attestations \ {id} : attestations'[other] = attestations[other]
    /\ intel_proofs' = intel_proofs
    /\ DOMAIN source_stats' \subseteq DOMAIN source_stats \cup {proofs[id].source_hash}
    /\ \A s \in DOMAIN source_stats \ {proofs[id].source_hash} :
           /\ s \in DOMAIN source_stats'
           /\ source_stats'[s] = source_stats[s]
    /\ total_proofs' = total_proofs
    /\ owner' = owner

C38_AttestStep == CommittedCall(last', "attest") => AttestFrame(last'.args.proof_id)

\* C38: a successful attest call on proof p changes only p's record, p's
\* attestation collection, the SourceStats entry of p's source and the global
\* attestation counter; every other proof record, every other proof's
\* attestation collection, every IntelIndex list and every other source's
\* SourceStats are unchanged.
C38_AttestChangesOnlyItsProof == [][C38_AttestStep]_vars

\* an attest call has changed the record, the collection, the source's stats
\* and the global counter of its proof, beside an attested proof of another
\* source
C38_Witness ==
    /\ CommittedCall(last, "attest")
    /\ ~last.found
    /\ total_attestations >= 2
    /\ \E id \in Registered \ {last.args.proof_id} :
           /\ proofs[id].source_hash # proofs[last.args.proof_id].source_hash
           /\ proofs[id].attestation_count >= 1
           /\ Len(attestations[id]) >= 1
           /\ source_stats[proofs[id].source_hash].total_attestations >= 1

---------------------------------------------------------------------------
(* The source-list NFT contract on its own *)

\* committed calls of the NFT contract in one behaviour
ListCalls == 3

\* the accounts that call the NFT contract
ListAccounts == {"alice.near", "bob.near"}

\* a list for sale at a price whose royalty has a fractional part, one for
\* sale at a price whose default royalty rounds down to nothing, one for sale
\* with no royalty, and one with a royalty above the limit
ListOffers ==
    {[price |-> Some(250), royalty_percent |-> Some(33)],
     [price |-> Some(7), royalty_percent |-> None],
     [price |-> Some(250), royalty_percent |-> Some(0)],
     [price |-> None, royalty_percent |-> Some(51)]}

\* not for sale, and the higher price
ListPrices == {None, Some(250)}

\* below both prices, and the higher price
ListDeposits == {6, 250}

ListName == <<"O", "S", "I", "N", "T">>
ListDescription == <<"f", "e", "e", "d", "s">>
ListCid == <<"Q", "m", "L">>
ListDomain == <<"g", "e", "o">>
ListSourceCount == 12

\* the ids of the first two tokens
ListTokens == {ListTokenId(1), ListTokenId(2)}

NextList ==
    \/ \E a \in ListAccounts, o \in ListOffers :
           /\ Mint(a, ListName, ListDescription, ListCid, ListSourceCount, ListDomain,
                   o.price, o.royalty_percent)
           /\ ncalls' <= ListCalls
    \/ \E a \in ListAccounts, t \in ListTokens, p \in ListPrices :
           SetPrice(a, t, p) /\ ncalls' <= ListCalls
    \/ \E a \in ListAccounts, d \in ListDeposits, t \in ListTokens :
           Purchase(a, d, t) /\ ncalls' <= ListCalls
    \/ \E a \in ListAccounts, b \in Accounts, t \in ListTokens :
           ListNftTransfer(a, b, t) /\ ncalls' <= ListCalls
    \/ \E a \in ListAccounts, t \in ListTokens : ListHasAccess(a, t)

SpecList == Init /\ [][NextList]_vars

\* the accounts that have a set in tokens_per_owner, or could call
ListHolders == Accounts \cup DOMAIN source_list_nft.tokens_per_owner

\* each minted token is in the set of its owner and of no other account, no
\* set holds a token that was not minted, and has_access says who the owner is
OneOwnerPerToken ==
    LET nft == source_list_nft
    IN  /\ DOMAIN nft.tokens_by_id = {ListTokenId(n) : n \in 1..(nft.next_token_id - 1)}
        /\ \A a \in ListHolders : ListsForOwner(nft, a) \subseteq DOMAIN nft.tokens_by_id
        /\ \A t \in DOMAIN nft.tokens_by_id :
               /\ nft.tokens_by_id[t].owner_id \in ListHolders
               /\ {a \in ListHolders : t \in ListsForOwner(nft, a)}
                      = {nft.tokens_by_id[t].owner_id}
               /\ {a \in ListHolders : ListHasAccessOf(nft, a, t)}
                      = {nft.tokens_by_id[t].owner_id}
        /\ Asked(last, "has_access")
           => last.value = (/\ last.args.token_id \in DOMAIN nft.tokens_by_id
                            /\ last.args.account_id
                                   \in {a \in ListHolders :
                                           last.args.token_id \in ListsForOwner(nft, a)})

\* a committed nft_transfer was called by the account that owned the token,
\* and a call by any other account is rejected
TransferByOwnerStep ==
    /\ CommittedCall(last', "nft_transfer")
       => /\ last'.args.token_id \in DOMAIN source_list_nft.tokens_by_id
          /\ source_list_nft.tokens_by_id[last'.args.token_id].owner_id = last'.args.caller
          /\ source_list_nft'.tokens_by_id[last'.args.token_id].owner_id
                 = last'.args.receiver_id
    /\ (/\ last'.op = "nft_transfer"
        /\ last'.result # "ok")
       => /\ source_list_nft' = source_list_nft
          /\ \/ last'.args.token_id \notin DOMAIN source_list_nft.tokens_by_id
             \/ source_list_nft.tokens_by_id[last'.args.token_id].owner_id
                    # last'.args.caller

\* C39: in the source-list NFT contract, after any sequence of mint,
\* nft_transfer and purchase calls, every minted token is contained in the
\* tokens_per_owner set of exactly one account, that account is the token's
\* owner_id, and has_access(account, token) is true for exactly that account;
\* nft_transfer succeeds only when the caller is the current owner.
C39_OneOwnerPerToken == []OneOwnerPerToken /\ [][TransferByOwnerStep]_vars

\* a token bought from its creator and then transferred on by its buyer to a
\* third account
C39_Witness ==
    /\ CommittedCall(last, "nft_transfer")
    /\ last.args.token_id = ListTokenId(1)
    /\ source_list_nft.list_metadata_by_id[ListTokenId(1)].creator
           \notin {last.args.caller, last.args.receiver_id}
    /\ last.args.caller # last.args.receiver_id
    /\ ListsForOwner(source_list_nft, last.args.caller) = {}
    /\ ListsForOwner(source_list_nft, last.args.receiver_id) = {ListTokenId(1)}
    /\ ListsForOwner(source_list_nft,
                     source_list_nft.list_metadata_by_id[ListTokenId(1)].creator) = {}

\* a transfer of a token to the account that holds it
C39_WitnessSelfTransfer ==
    /\ CommittedCall(last, "nft_transfer")
    /\ last.args.caller = last.args.receiver_id
    /\ ListsForOwner(source_list_nft, last.args.caller) = {last.args.token_id}

\* a purchase has moved a token
C39_WitnessPurchase ==
    /\ CommittedCall(last, "purchase")
    /\ ListsForOwner(source_list_nft, last.args.caller) = {last.args.token_id}
    /\ ListsForOwner(source_list_nft, last.seller) = {}

\* what the transfers of a purchase pay to the account
RECURSIVE PaidTo(_, _)
PaidTo(payouts, account) ==
    IF payouts = <<>> THEN 0
    ELSE (IF payouts[1].receiver = account THEN payouts[1].amount ELSE 0)
         + PaidTo(Tail(payouts), account)

\* what the transfers of a purchase pay in all
RECURSIVE PaidOut(_)
PaidOut(payouts) ==
    IF payouts = <<>> THEN 0 ELSE payouts[1].amount + PaidOut(Tail(payouts))

\* floor(P * r / 100)
RoyaltyShare(price, royalty_percent) ==
    CHOOSE q \in 0..price : /\ 100 * q <= price * royalty_percent
                           /\ price * royalty_percent < 100 * (q + 1)

\* C40: in the source-list NFT contract, every successful purchase of a token
\* with listed price P and royalty_percent r transfers ownership to the buyer
\* and pays out exactly P in total: floor(P*r/100) to the original creator and
\* P - floor(P*r/100) to the seller, for every combination of seller and
\* creator (including when the seller is the creator, who then is paid both
\* parts).
C40_PurchasePaysThePrice ==
    CommittedCall(last, "purchase")
    => LET share == RoyaltyShare(last.price, last.royalty_percent)
       IN  /\ source_list_nft.tokens_by_id[last.args.token_id].owner_id = last.args.caller
           /\ PaidOut(last.value) = last.price
           /\ PaidTo(last.value, last.creator)
                  = IF last.creator = last.seller THEN last.price ELSE share
           /\ PaidTo(last.value, last.seller)
                  = IF last.creator = last.seller THEN last.price ELSE last.price - share

\* the same for the purchases in which the seller is not the creator, and for
\* those with no royalty to pay
C40_ResalePaysThePrice ==
    (/\ CommittedCall(last, "purchase")
     /\ \/ last.creator # last.seller
        \/ RoyaltyShare(last.price, last.royalty_percent) = 0)
    => LET share == RoyaltyShare(last.price, last.royalty_percent)
       IN  /\ source_list_nft.tokens_by_id[last.args.token_id].owner_id = last.args.caller
           /\ PaidOut(last.value) = last.price
           /\ PaidTo(last.value, last.creator)
                  = IF last.creator = last.seller THEN last.price ELSE share
           /\ PaidTo(last.value, last.seller)
                  = IF last.creator = last.seller THEN last.price ELSE last.price - share

\* a resale with a royalty that has a fractional part: 82 of 250 to the creator
C40_WitnessResale ==
    /\ CommittedCall(last, "purchase")
    /\ last.creator # last.seller
    /\ last.price = 250
    /\ last.royalty_percent = 33
    /\ last.value = <<Transfer(last.seller, 168), Transfer(last.creator, 82)>>

\* a first sale by the creator with a royalty: 168 of 250 paid out
C40_WitnessFirstSale ==
    /\ CommittedCall(last, "purchase")
    /\ last.creator = last.seller
    /\ last.price = 250
    /\ last.royalty_percent = 33
    /\ last.value = <<Transfer(last.seller, 168)>>

=============================================================================
